---- MODULE Spec2Model ----
(***************************************************************************)
(* A model of the Notion synchronisation engine of sphinx-notionbuilder    *)
(* (src/src/sphinx_notion/_upload.py): the block equivalence check, the    *)
(* prefix/suffix diff, one run of upload_to_notion from the read of the    *)
(* page's blocks to its return, and the rate-limit retry wrapper.          *)
(*                                                                         *)
(* The remote service is modelled as the ordered child list of the target  *)
(* page: a delete removes one child, append(after=b) inserts the new       *)
(* blocks in order right after b, or at the end of the page when after is  *)
(* None.                                                                   *)
(***************************************************************************)
EXTENDS Integers, Sequences, FiniteSets, TLC

VARIABLES
    page,                  \* remote children of the target page: <<[id, val]>>
    nextId,                \* next block id the service assigns
    blocks,                \* the local block sequence (argument `blocks`)
    cancel_on_discussion,  \* argument of upload_to_notion
    pc,                    \* position of the run inside upload_to_notion
    run,                   \* 1 for the first run, 2 for the run that follows it
    prev_ok,               \* the previous run returned without error
    existing_blocks,       \* result of page.blocks (line 440)
    match_lengths,         \* value returned by the diff (line 446)
    prefix_len,
    suffix_len,
    delete_i,              \* number of blocks_to_delete already handled
    block_objs,            \* block_objs_with_uploaded_files built so far
    deletes,               \* ids of the delete calls issued in this run
    appends,               \* append calls issued in this run: [blocks, after]
    uploads,               \* number of file upload calls issued in this run
    error,                 \* exception that ended the run, "" if none
    discussion_counts,     \* what _get_block_discussions returned for each
                           \* block to delete, kept when cancel_on_discussion
    subpages,              \* child pages of the parent: [title, subpages, subdbs]
    target,                \* index in subpages of the resolved page, 0 if none
    creates,               \* number of create_page calls
    icon,                  \* argument `icon` ("" for None)
    cover,                 \* arguments cover_path / cover_url: "path", "url", ""
    page_icon,             \* icon of the resolved page
    page_cover,            \* cover of the resolved page, a file or NoFile
    setattrs,              \* attributes set on the page by setattr, in order
    cover_uploads,         \* number of cover upload calls
    fn,                    \* retry wrapper: behaviour of the wrapped callable
    attempt,               \* retry wrapper: loop variable `attempt`
    rpc,                   \* retry wrapper: position
    calls,                 \* retry wrapper: number of invocations of fn
    sleeps,                \* retry wrapper: arguments of time.sleep, in order
    outcome,               \* retry wrapper: what the wrapper returned or raised
    cmp_existing,          \* comparison: argument existing_page_block
    cmp_local,             \* comparison: argument local_block
    cmp_result,            \* comparison: "" before the call, then the result
    mapping_file,          \* upload_files: the SHA mapping file, digest -> URL
    sha_mapping,           \* upload_files: the mapping in memory
    file_urls,             \* upload_files: URLs the loop has still to handle
    referenced_shas,       \* upload_files: local variable of main
    file_uploads,          \* upload_files: paths of the session.upload calls
    fpc,                   \* upload_files: position inside main
    frun,                  \* upload_files: number of the run of main
    ferror,                \* upload_files: exception that ended main: its
                           \* code and the responses its remote call had
    contents,              \* upload: the blocks loaded from the JSON file
    processed_contents,    \* upload: local variable of main (line 507)
    batch_size,            \* upload: argument --batch-size
    existing_page_id,      \* upload: the page with the title of the run, as
                           \* _find_existing_page_by_title returns it
    remote,                \* upload: blocks of the service: [id, parent, type, rich_text]
    next_block_id,         \* upload: id of the next block the service creates
    append_calls,          \* upload: blocks.children.append calls: [block_id, children]
    call,                  \* upload: arguments of the call of
                           \* _upload_blocks_with_deep_nesting being entered
    stack,                 \* upload: the loops over deep tasks that are
                           \* running, of _upload_blocks_with_deep_nesting
                           \* or of main: [page_id, tasks, uploaded_blocks,
                           \* asserted, remaining]
    dpc,                   \* upload: position inside main and the upload
    derror,                \* upload: exception that ended main, "" if none
    asset_log              \* the calls of a run that send a file, wait for it
                           \* or use it: [op, path]

runVars == <<page, nextId, blocks, cancel_on_discussion, pc, run, prev_ok,
             existing_blocks, match_lengths, prefix_len, suffix_len, delete_i,
             block_objs, deletes, appends, uploads, error, discussion_counts>>
resolveVars == <<subpages, target, creates, icon, cover, page_icon, page_cover,
                 setattrs, cover_uploads>>
retryVars == <<fn, attempt, rpc, calls, sleeps, outcome>>
equivVars == <<cmp_existing, cmp_local, cmp_result>>
filesVars == <<mapping_file, sha_mapping, file_urls, referenced_shas,
               file_uploads, fpc, frun, ferror>>
deepVars == <<contents, processed_contents, batch_size, existing_page_id,
              remote, next_block_id, append_calls, call, stack, dpc, derror>>
vars == <<runVars, resolveVars, retryVars, equivVars, filesVars, deepVars,
          asset_log>>

(***************************************************************************)
(* Bounds of the model.                                                    *)
(***************************************************************************)
MaxExisting == 3    \* longest initial child sequence of the page
MaxLocal == 3       \* longest local block sequence

(***************************************************************************)
(* Blocks.  A block value has a kind, a text, children and a file          *)
(* reference; fields a kind does not use are empty.  A URL is kept parsed  *)
(* (scheme, path), so urlparse(url).scheme is a field access.              *)
(***************************************************************************)
NoUrl == [scheme |-> "", path |-> ""]

NoFile == [ftype |-> "none", url |-> NoUrl, name |-> "", caption |-> ""]

Min(a, b) == IF a <= b THEN a ELSE b

\* ultimate_notion.blocks.ParentBlock: the kinds that may hold children.
IsParentBlock(b) == b.kind \in {"paragraph", "bulleted_list_item"}

\* _FILE_BLOCK_TYPES
IsFileBlock(b) == b.kind \in {"image", "video", "audio", "pdf", "file"}

Divider == [kind |-> "divider", text |-> "", children |-> <<>>, file |-> NoFile]

Paragraph(t) ==
    [kind |-> "paragraph", text |-> t, children |-> <<>>, file |-> NoFile]

BulletedItem(t, cs) ==
    [kind |-> "bulleted_list_item", text |-> t, children |-> cs, file |-> NoFile]

Image(f) == [kind |-> "image", text |-> "", children |-> <<>>, file |-> f]

Video(f) == [kind |-> "video", text |-> "", children |-> <<>>, file |-> f]

File(f) == [kind |-> "file", text |-> "", children |-> <<>>, file |-> f]

\* ExternalFile(url=...): a reference by URL; a file:// URL is a local path.
ExternalFile(u, n, c) == [ftype |-> "external", url |-> u, name |-> n, caption |-> c]

\* NotionFile(url=...): a file hosted by the service.
NotionFile(u, n, c) == [ftype |-> "notion", url |-> u, name |-> n, caption |-> c]

\* The local file of the documentation build and the files the service hosts.
LocalImg == [scheme |-> "file", path |-> "/docs/img.png"]
LocalCopy == [scheme |-> "file", path |-> "/docs/copy.png"]     \* same bytes
LocalNew == [scheme |-> "file", path |-> "/docs/new.png"]       \* other bytes
LocalMissing == [scheme |-> "file", path |-> "/docs/missing.png"]  \* no file
HostedImg == [scheme |-> "https", path |-> "/hosted/img.png"]
HostedOld == [scheme |-> "https", path |-> "/hosted/old.png"]
HostedCopy == [scheme |-> "https", path |-> "/hosted/copy.png"]
HostedNew == [scheme |-> "https", path |-> "/hosted/new.png"]
\* An asset of an earlier upload that the service no longer serves.
HostedExpired == [scheme |-> "https", path |-> "/hosted/expired.png"]

\* Two files on another site; the first has the bytes of the local file.
ExtImg == [scheme |-> "https", path |-> "/site/img.png"]
ExtOther == [scheme |-> "https", path |-> "/site/other.png"]

\* Path(...).name
FileName(path) ==
    CASE path = "/docs/img.png" -> "img.png"
      [] path = "/docs/copy.png" -> "copy.png"
      [] path = "/docs/new.png" -> "new.png"
      [] OTHER -> "other.png"

\* _calculate_file_sha: digest of the bytes of a local file.
_calculate_file_sha(file_path) ==
    CASE file_path = "/docs/img.png" -> "sha-img"
      [] file_path = "/docs/copy.png" -> "sha-img"
      [] file_path = "/docs/new.png" -> "sha-new"
      [] OTHER -> "sha-none"

\* _calculate_file_sha_from_url: digest of the bytes behind a remote URL.
_calculate_file_sha_from_url(file_url) ==
    CASE file_url = HostedImg -> "sha-img"
      [] file_url = HostedOld -> "sha-old"
      [] file_url = ExtImg -> "sha-img"
      [] file_url = HostedCopy -> "sha-img"
      [] file_url = HostedNew -> "sha-new"
      [] OTHER -> "sha-unknown"

\* The URL under which the service hosts the bytes uploaded from a path.
HostedUrl(path) ==
    CASE path = "/docs/img.png" -> HostedImg
      [] path = "/docs/copy.png" -> HostedCopy
      [] path = "/docs/new.png" -> HostedNew
      [] OTHER -> HostedOld

\* A comparison of the two locations instead of the two digests.
_files_match_ByLocation(existing_file_url, local_file_path) ==
    existing_file_url.path = local_file_path

\* A comparison that takes any two files for the same.
_files_match_Always(existing_file_url, local_file_path) == TRUE

_files_match(existing_file_url, local_file_path) ==
    _calculate_file_sha_from_url(existing_file_url)
        = _calculate_file_sha(local_file_path)

_block_without_children(block) == [block EXCEPT !.children = <<>>]

\* The local blocks a run may be given, and the values the page's children
\* may have when the run starts.
LocalUniverse ==
    { Paragraph("a"),
      BulletedItem("item", <<Divider>>),
      Image(ExternalFile(LocalImg, "img.png", "")) }

RemoteUniverse ==
    { Paragraph("b"),
      BulletedItem("item", <<Divider>>),
      Image(NotionFile(HostedImg, "img.png", "")) }

(***************************************************************************)
(* _is_existing_equivalent (lines 200-264).                                *)
(***************************************************************************)
RECURSIVE _is_existing_equivalent(_, _)
\* A comparison of the children pair by pair without comparing their number
\* first (zip stops at the shorter list).
_is_existing_equivalent_ZipOnly(existing_page_block, local_block) ==
    IF existing_page_block.kind # local_block.kind
    THEN FALSE
    ELSE IF IsFileBlock(local_block)
    THEN IF local_block.file.url.scheme = "file"
         THEN IF \/ existing_page_block.file.ftype # "notion"
                 \/ existing_page_block.file.name # local_block.file.name
                 \/ existing_page_block.file.caption # local_block.file.caption
              THEN FALSE
              ELSE _files_match(existing_page_block.file.url,
                                local_block.file.url.path)
         ELSE existing_page_block = local_block
    ELSE IF IsParentBlock(existing_page_block)
    THEN IF _block_without_children(existing_page_block)
                  # _block_without_children(local_block)
         THEN FALSE
         ELSE \A i \in 1..Min(Len(existing_page_block.children),
                              Len(local_block.children)) :
                  _is_existing_equivalent(existing_page_block.children[i],
                                          local_block.children[i])
    ELSE existing_page_block = local_block

\* A comparison of file blocks that are not local paths by their URLs only.
_is_existing_equivalent_FilesByUrl(existing_page_block, local_block) ==
    IF existing_page_block.kind # local_block.kind
    THEN FALSE
    ELSE IF IsFileBlock(local_block)
    THEN IF local_block.file.url.scheme = "file"
         THEN IF \/ existing_page_block.file.ftype # "notion"
                 \/ existing_page_block.file.name # local_block.file.name
                 \/ existing_page_block.file.caption # local_block.file.caption
              THEN FALSE
              ELSE _files_match(existing_page_block.file.url,
                                local_block.file.url.path)
         ELSE existing_page_block.file.url = local_block.file.url
    ELSE IF IsParentBlock(existing_page_block)
    THEN IF \/ _block_without_children(existing_page_block)
                  # _block_without_children(local_block)
            \/ Len(existing_page_block.children) # Len(local_block.children)
         THEN FALSE
         ELSE \A i \in 1..Len(local_block.children) :
                  _is_existing_equivalent(existing_page_block.children[i],
                                          local_block.children[i])
    ELSE existing_page_block = local_block

_is_existing_equivalent(existing_page_block, local_block) ==
    IF existing_page_block.kind # local_block.kind
    THEN FALSE
    ELSE IF IsFileBlock(local_block)
    THEN IF local_block.file.url.scheme = "file"
         THEN IF \/ existing_page_block.file.ftype # "notion"
                 \/ existing_page_block.file.name # local_block.file.name
                 \/ existing_page_block.file.caption # local_block.file.caption
              THEN FALSE
              ELSE _files_match(existing_page_block.file.url,
                                local_block.file.url.path)
         ELSE existing_page_block = local_block
    ELSE IF IsParentBlock(existing_page_block)
    THEN IF \/ _block_without_children(existing_page_block)
                  # _block_without_children(local_block)
            \/ Len(existing_page_block.children) # Len(local_block.children)
         THEN FALSE
         ELSE \A i \in 1..Len(local_block.children) :
                  _is_existing_equivalent(existing_page_block.children[i],
                                          local_block.children[i])
    ELSE existing_page_block = local_block

\* The values of a sequence of remote children.
Vals(bs) == [i \in 1..Len(bs) |-> bs[i].val]

(***************************************************************************)
(* _find_matching_prefix_and_suffix_lengths (lines 163-197).  Both loops   *)
(* count upwards and stop at the first pair that is not equivalent.        *)
(***************************************************************************)
\* A prefix scan that skips a pair that is not equivalent instead of stopping.
RECURSIVE PrefixScan_NoBreak(_, _, _, _)
PrefixScan_NoBreak(existing, local, i, min_len) ==
    IF i >= min_len THEN 0
    ELSE (IF _is_existing_equivalent(existing[i + 1], local[i + 1]) THEN 1 ELSE 0)
         + PrefixScan_NoBreak(existing, local, i + 1, min_len)

\* for i in range(min_len): the loop at index i (0-based) with the count so far.
RECURSIVE PrefixScan(_, _, _, _)
PrefixScan(existing, local, i, min_len) ==
    IF i >= min_len THEN i
    ELSE IF _is_existing_equivalent(existing[i + 1], local[i + 1])
         THEN PrefixScan(existing, local, i + 1, min_len)
         ELSE i

\* for i in range(1, min_len - prefix_len + 1): compares existing[-i], local[-i].
RECURSIVE SuffixScan(_, _, _, _)
SuffixScan(existing, local, i, stop) ==
    IF i >= stop THEN i - 1
    ELSE IF _is_existing_equivalent(existing[Len(existing) - i + 1],
                                    local[Len(local) - i + 1])
         THEN SuffixScan(existing, local, i + 1, stop)
         ELSE i - 1

\* A suffix scan that is not bounded to the region the prefix left unmatched.
SuffixStop_Unbounded(min_len, prefix) == min_len + 1

\* The end of range(1, min_len - prefix_len + 1) (line 188).
SuffixStop(min_len, prefix) == min_len - prefix + 1

\* A diff that itself drops the suffix when there is no prefix.
_find_matching_prefix_and_suffix_lengths_Forced(existing, local) ==
    LET min_len == Min(Len(existing), Len(local))
        p == PrefixScan(existing, local, 0, min_len)
        s == SuffixScan(existing, local, 1, SuffixStop(min_len, p))
    IN  [prefix |-> p, suffix |-> IF p = 0 THEN 0 ELSE s]

_find_matching_prefix_and_suffix_lengths(existing, local) ==
    LET min_len == Min(Len(existing), Len(local))
        p == PrefixScan(existing, local, 0, min_len)
        s == SuffixScan(existing, local, 1, SuffixStop(min_len, p))
    IN  [prefix |-> p, suffix |-> s]

(***************************************************************************)
(* One run of upload_to_notion, from the read of the page's blocks         *)
(* (line 440) to its return (line 519).  Every remote call goes through    *)
(* _retry_on_rate_limit, so from the run's point of view a remote call     *)
(* either returns or raises the APIResponseError the wrapper lets through. *)
(***************************************************************************)
NoError == [type |-> "", blocks |-> 0, threads |-> 0]

APIError == [type |-> "APIResponseError", blocks |-> 0, threads |-> 0]

\* The run without the adjustment of lines 455-456.
UsedSuffixLen_Unadjusted(prefix, suffix) == suffix

\* The adjustment of lines 455-456 testing the wrong length.
UsedSuffixLen_WrongTest(prefix, suffix) == IF suffix = 0 THEN 0 ELSE suffix

\* Lines 453-456: no suffix matching without a prefix.
UsedSuffixLen(prefix, suffix) == IF prefix = 0 THEN 0 ELSE suffix

\* existing_blocks[prefix_len:existing_end] and blocks[prefix_len:local_end]
\* (lines 458-462) for given lengths; Python slices are empty when the start
\* is not before the end.
Slice(s, from, to) == SubSeq(s, from + 1, to)

\* A delete range that runs to the end of the existing blocks.
DeleteRange_ToEnd(existing, p, s) == Slice(existing, p, Len(existing))

\* A delete range that starts at the last block of the matched prefix.
DeleteRange_FromAnchor(existing, p, s) ==
    Slice(existing, IF p > 0 THEN p - 1 ELSE 0, Len(existing) - s)

DeleteRange(existing, p, s) == Slice(existing, p, Len(existing) - s)

\* An upload range that leaves out its first block.
UploadRange_WithoutFirst(local, p, s) == Slice(local, p + 1, Len(local) - s)

\* An upload range that runs to the end of the local sequence.
UploadRange_WithSuffix(local, p, s) == Slice(local, p, Len(local))

UploadRange(local, p, s) == Slice(local, p, Len(local) - s)

blocks_to_delete == DeleteRange(existing_blocks, prefix_len, suffix_len)

blocks_to_upload == UploadRange(blocks, prefix_len, suffix_len)

\* The diff fetches the children of an existing parent block through a
\* remote call (line 243) whenever it compares two blocks of the same
\* parent kind; it compares the pairs up to the first mismatch of each scan.
FetchesChildren(existing, local, m) ==
    LET min_len == Min(Len(existing), Len(local))
        compared == (1..Min(m.prefix + 1, min_len))
        comparedBack == (1..Min(m.suffix + 1, min_len - m.prefix))
        samePar(e, l) == e.kind = l.kind /\ ~IsFileBlock(l) /\ IsParentBlock(e)
    IN  \/ \E i \in compared : samePar(existing[i], local[i])
        \/ \E j \in comparedBack :
               samePar(existing[Len(existing) - j + 1], local[Len(local) - j + 1])

\* A count that leaves out the files of the children.
UploadCount_TopLevelOnly(block) ==
    IF IsFileBlock(block) /\ block.file.url.scheme = "file" THEN 1 ELSE 0

\* Number of file uploads _block_with_uploaded_file issues for a block:
\* one per file:// file block, at any depth (lines 304-331).
RECURSIVE SumUploads(_, _)
RECURSIVE UploadCount(_)
UploadCount(block) ==
    IF IsFileBlock(block)
    THEN IF block.file.url.scheme = "file" THEN 1 ELSE 0
    ELSE IF IsParentBlock(block) /\ Len(block.children) > 0
         THEN SumUploads(block.children, Len(block.children))
         ELSE 0

SumUploads(cs, n) ==
    IF n = 0 THEN 0 ELSE SumUploads(cs, n - 1) + UploadCount(cs[n])

\* session.upload(file=..., file_name=file_path.name) followed by
\* wait_until_uploaded: the uploaded file, named after the path.
UploadedFile(path, caption) ==
    [ftype |-> "file_upload", url |-> HostedUrl(path),
     name |-> FileName(path), caption |-> caption]

\* Every file block is rebuilt from an upload, whatever its URL.
RECURSIVE _block_with_uploaded_file_AnyUrl(_)
_block_with_uploaded_file_AnyUrl(block) ==
    IF IsFileBlock(block)
    THEN [block EXCEPT
             !.file = UploadedFile(block.file.url.path, block.file.caption)]
    ELSE IF IsParentBlock(block) /\ Len(block.children) > 0
         THEN [_block_without_children(block) EXCEPT
                  !.children = [i \in 1..Len(block.children) |->
                      _block_with_uploaded_file_AnyUrl(block.children[i])]]
         ELSE block

\* _block_with_uploaded_file (lines 301-333).
RECURSIVE _block_with_uploaded_file(_)
_block_with_uploaded_file(block) ==
    IF IsFileBlock(block)
    THEN IF block.file.url.scheme = "file"
         THEN [block EXCEPT
                  !.file = UploadedFile(block.file.url.path, block.file.caption)]
         ELSE block
    ELSE IF IsParentBlock(block) /\ Len(block.children) > 0
         THEN [_block_without_children(block) EXCEPT
                  !.children = [i \in 1..Len(block.children) |->
                                   _block_with_uploaded_file(block.children[i])]]
         ELSE block

RECURSIVE Concat(_)
Concat(seqs) == IF seqs = <<>> THEN <<>> ELSE Head(seqs) \o Concat(Tail(seqs))

\* The calls of a run about the file at a path: session.upload, the return
\* of wait_until_uploaded, and the statement that hands the uploaded file
\* to a block ("block"), to the page cover ("cover") or to the mapping
\* ("mapping").
UploadCall(path) == [op |-> "upload", path |-> path]

WaitReturn(path) == [op |-> "wait_until_uploaded", path |-> path]

Reference(by, path) == [op |-> by, path |-> path]

\* The block is built from the uploaded file before the wait.
RECURSIVE _block_with_uploaded_file_calls_BuildFirst(_)
_block_with_uploaded_file_calls_BuildFirst(block) ==
    IF IsFileBlock(block)
    THEN IF block.file.url.scheme = "file"
         THEN <<UploadCall(block.file.url.path),
                Reference("block", block.file.url.path),
                WaitReturn(block.file.url.path)>>
         ELSE <<>>
    ELSE IF IsParentBlock(block) /\ Len(block.children) > 0
         THEN Concat([i \in 1..Len(block.children) |->
                  _block_with_uploaded_file_calls_BuildFirst(block.children[i])])
         ELSE <<>>

\* _block_with_uploaded_file (lines 301-333): the calls it makes, in order,
\* when none of them raises.
RECURSIVE _block_with_uploaded_file_calls(_)
_block_with_uploaded_file_calls(block) ==
    IF IsFileBlock(block)
    THEN IF block.file.url.scheme = "file"
         THEN <<UploadCall(block.file.url.path),
                WaitReturn(block.file.url.path),
                Reference("block", block.file.url.path)>>
         ELSE <<>>
    ELSE IF IsParentBlock(block) /\ Len(block.children) > 0
         THEN Concat([i \in 1..Len(block.children) |->
                  _block_with_uploaded_file_calls(block.children[i])])
         ELSE <<>>

\* The calls made when the n-th upload is the one that raises, in
\* session.upload or in wait_until_uploaded: the calls up to that upload.
CallsUntilRaise(events, n) ==
    LET uploads_to(k) ==
            Cardinality({i \in 1..k : events[i].op = "upload"})
        last == CHOOSE k \in 1..Len(events) :
                    events[k].op = "upload" /\ uploads_to(k) = n
    IN  SubSeq(events, 1, last)

\* What the service returns for a block it was sent: a block built from an
\* uploaded file reads back as a file hosted by the service.
RECURSIVE Stored(_)
Stored(block) ==
    [block EXCEPT
        !.file = IF block.file.ftype = "file_upload"
                 THEN NotionFile(block.file.url, block.file.name,
                                 block.file.caption)
                 ELSE block.file,
        !.children = [i \in 1..Len(block.children) |-> Stored(block.children[i])]]

\* Index of the child with a given id in a child list, 0 if there is none.
IndexOf(children, id) ==
    IF \E i \in 1..Len(children) : children[i].id = id
    THEN CHOOSE i \in 1..Len(children) : children[i].id = id
    ELSE 0

\* Block.delete: the service removes the child with this id.
DeleteChild(children, id) ==
    LET i == IndexOf(children, id)
    IN  IF i = 0 THEN children
        ELSE SubSeq(children, 1, i - 1) \o SubSeq(children, i + 1, Len(children))

\* page.append(blocks=..., after=...): the service creates the blocks, in
\* order, right after the child `after`, or at the end when after is None (0).
AppendChildren(children, new, after, firstId) ==
    LET created == [i \in 1..Len(new) |->
                       [id |-> firstId + i - 1, val |-> Stored(new[i])]]
        at == IF after = 0 THEN Len(children) ELSE IndexOf(children, after)
    IN  SubSeq(children, 1, at) \o created \o SubSeq(children, at + 1, Len(children))

\* An append that is never anchored.
AfterBlock_None(existing, p) == 0

\* Lines 510-512: the anchor of the append, None (0) without a prefix.
AfterBlock(existing, p) == IF p > 0 THEN existing[p].id ELSE 0

SeqsUpTo(S, n) == UNION {[1..k -> S] : k \in 0..n}

MaxRuns == 2             \* runs of upload_to_notion in a row
MaxDiscussions == 2      \* most discussion threads on one block

\* Argument `title`.
Title == "Doc"

\* A child page of the parent: its title, and whether it has sub-pages and
\* sub-databases of its own.
ChildPage(t, sp, sd) == [title |-> t, subpages |-> sp, subdbs |-> sd]

\* The state lines 370-437 leave behind when the parent has one page with
\* the title, that page has no sub-page and no sub-database, and neither
\* an icon nor a cover is asked for.
Resolved ==
    /\ subpages = <<ChildPage(Title, FALSE, FALSE)>>
    /\ target = 1
    /\ creates = 0
    /\ icon = ""
    /\ cover = ""
    /\ page_icon = ""
    /\ page_cover = NoFile
    /\ setattrs = <<"icon", "cover">>
    /\ cover_uploads = 0

\* upload_files is not running.
\* The upload command (_notion_scripts/upload.py) is not run.
NoCall == [page_id |-> 0, blocks |-> <<>>]

NoDeepRun ==
    /\ contents = <<>>
    /\ processed_contents = <<>>
    /\ batch_size = 1
    /\ existing_page_id = -1          \* no page
    /\ remote = <<>>
    /\ next_block_id = 1
    /\ append_calls = <<>>
    /\ call = NoCall
    /\ stack = <<>>
    /\ dpc = "idle"
    /\ derror = ""

NoFilesError == [code |-> "", responses |-> 0]

NoFilesRun ==
    /\ mapping_file = <<>>
    /\ sha_mapping = <<>>
    /\ file_urls = {}
    /\ referenced_shas = {}
    /\ file_uploads = <<>>
    /\ fpc = "idle"
    /\ frun = 0
    /\ ferror = NoFilesError

\* No call of _is_existing_equivalent is being looked at.
NoComparison ==
    /\ cmp_existing = Divider
    /\ cmp_local = Divider
    /\ cmp_result = ""

Init ==
    /\ \E vs \in SeqsUpTo(RemoteUniverse, MaxExisting) :
           page = [i \in 1..Len(vs) |-> [id |-> i, val |-> vs[i]]]
    /\ nextId = Len(page) + 1
    /\ blocks \in SeqsUpTo(LocalUniverse, MaxLocal)
    /\ cancel_on_discussion = FALSE    \* SpecUpload has the runs with it set
    /\ pc = "list_blocks"
    /\ run = 1
    /\ prev_ok = FALSE
    /\ existing_blocks = <<>>
    /\ match_lengths = [prefix |-> 0, suffix |-> 0]
    /\ prefix_len = 0
    /\ suffix_len = 0
    /\ delete_i = 0
    /\ block_objs = <<>>
    /\ deletes = <<>>
    /\ appends = <<>>
    /\ uploads = 0
    /\ error = NoError
    /\ discussion_counts = <<>>
    /\ Resolved
    /\ NoComparison
    /\ NoFilesRun
    /\ NoDeepRun
    /\ asset_log = <<>>
    /\ fn = [rate_limited |-> 0, final |-> "return"]
    /\ attempt = 0
    /\ rpc = "idle"
    /\ calls = 0
    /\ sleeps = <<>>
    /\ outcome = ""

\* A run that prepares and appends the new blocks first and deletes after.
Resume_AppendFirst(to_delete, to_upload, d, k) ==
    IF k < Len(to_upload) THEN "prepare"
    ELSE IF Len(to_upload) > 0 THEN "append"
    ELSE IF d < Len(to_delete) THEN "delete"
    ELSE "done"

\* Where the run continues once d blocks are deleted and k of the blocks
\* to upload are prepared; after the append nothing is left to upload.
Resume(to_delete, to_upload, d, k) ==
    IF d < Len(to_delete) THEN "delete"
    ELSE IF k < Len(to_upload) THEN "prepare"
    ELSE IF Len(to_upload) > 0 THEN "append"
    ELSE "done"

\* A run that starts over when a call raised.
Fail_StartsOver(e) ==
    /\ pc' = "get_parent"
    /\ error' = e

Fail(e) ==
    /\ pc' = "failed"
    /\ error' = e

\* A listing that only the first run reads from the service.
ListBlocks_FirstRunOnly ==
    /\ pc = "list_blocks"
    /\ \/ /\ existing_blocks' = IF run = 1 THEN page ELSE <<>>
          /\ pc' = "diff"
          /\ UNCHANGED error
       \/ /\ Fail(APIError)
          /\ UNCHANGED existing_blocks
    /\ UNCHANGED <<page, nextId, blocks, cancel_on_discussion, run, prev_ok,
                   match_lengths, prefix_len, suffix_len, delete_i, block_objs,
                   deletes, appends, uploads>>
    /\ UNCHANGED discussion_counts
    /\ UNCHANGED <<resolveVars, retryVars, equivVars, filesVars, deepVars,
                   asset_log>>

\* Line 440: existing_blocks = page.blocks.
ListBlocks ==
    /\ pc = "list_blocks"
    /\ \/ /\ existing_blocks' = page
          /\ pc' = "diff"
          /\ UNCHANGED error
       \/ /\ Fail(APIError)
          /\ UNCHANGED existing_blocks
    /\ UNCHANGED <<page, nextId, blocks, cancel_on_discussion, run, prev_ok,
                   match_lengths, prefix_len, suffix_len, delete_i, block_objs,
                   deletes, appends, uploads>>
    /\ UNCHANGED discussion_counts
    /\ UNCHANGED <<resolveVars, retryVars, equivVars, filesVars, deepVars,
                   asset_log>>

\* Lines 446-469: the diff and the two ranges.
Diff ==
    /\ pc = "diff"
    /\ LET m == _find_matching_prefix_and_suffix_lengths(
                    Vals(existing_blocks), blocks)
           p == m.prefix
           s == UsedSuffixLen(m.prefix, m.suffix)
           to_delete == DeleteRange(existing_blocks, p, s)
           to_upload == UploadRange(blocks, p, s)
       IN  \/ /\ match_lengths' = m
              /\ prefix_len' = p
              /\ suffix_len' = s
              /\ pc' = IF Len(to_delete) > 0 THEN "discussions"
                       ELSE Resume(to_delete, to_upload, 0, 0)
              /\ UNCHANGED error
           \/ /\ FetchesChildren(Vals(existing_blocks), blocks, m)
              /\ Fail(APIError)
              /\ UNCHANGED <<match_lengths, prefix_len, suffix_len>>
    /\ UNCHANGED <<page, nextId, blocks, cancel_on_discussion, run, prev_ok,
                   existing_blocks, delete_i, block_objs, deletes, appends,
                   uploads>>
    /\ UNCHANGED discussion_counts
    /\ UNCHANGED <<resolveVars, retryVars, equivVars, filesVars, deepVars,
                   asset_log>>

RECURSIVE SumSeq(_, _)
SumSeq(f, n) == IF n = 0 THEN 0 ELSE SumSeq(f, n - 1) + f[n]

\* Lines 470-474: the positions of the blocks to delete whose read
\* returned at least one discussion.
blocks_to_delete_with_discussions(d) == {i \in DOMAIN d : d[i] > 0}

\* A total that counts the blocks instead of their discussions.
total_discussions_CountsBlocks(d) ==
    Cardinality(blocks_to_delete_with_discussions(d))

\* Lines 477-480: the discussions of the blocks that have some, summed.
total_discussions(d) == SumSeq(d, Len(d))

\* Lines 470-487: read the discussions of every block to delete (d is what
\* the reads return); cancel when asked to and some block has discussions,
\* go on when not asked to or when no block has any.  The total of line
\* 477 is a second read of the same blocks, which can fail as well.
CheckDiscussions ==
    /\ pc = "discussions"
    /\ \/ /\ cancel_on_discussion
          /\ \E d \in [1..Len(blocks_to_delete) -> 0..MaxDiscussions] :
                /\ blocks_to_delete_with_discussions(d) # {}
                /\ discussion_counts' = d
                /\ \/ Fail([type |-> "DiscussionsExistError",
                            blocks |-> Cardinality(
                                blocks_to_delete_with_discussions(d)),
                            threads |-> total_discussions(d)])
                   \/ Fail(APIError)
       \/ /\ pc' = Resume(blocks_to_delete, blocks_to_upload, 0, 0)
          /\ discussion_counts' =
                 IF cancel_on_discussion
                 THEN [i \in 1..Len(blocks_to_delete) |-> 0]
                 ELSE <<>>
          /\ UNCHANGED error
       \/ /\ Fail(APIError)
          /\ UNCHANGED discussion_counts
    /\ UNCHANGED <<page, nextId, blocks, cancel_on_discussion, run, prev_ok,
                   existing_blocks, match_lengths, prefix_len, suffix_len,
                   delete_i, block_objs, deletes, appends, uploads>>
    /\ UNCHANGED <<resolveVars, retryVars, equivVars, filesVars, deepVars,
                   asset_log>>

\* Lines 489-497: one iteration of the delete loop.
DeleteBlock ==
    /\ pc = "delete"
    /\ LET b == blocks_to_delete[delete_i + 1]
       IN  /\ deletes' = Append(deletes, b.id)
           /\ \/ /\ page' = DeleteChild(page, b.id)
                 /\ delete_i' = delete_i + 1
                 /\ pc' = Resume(blocks_to_delete, blocks_to_upload,
                                 delete_i + 1, Len(block_objs))
                 /\ UNCHANGED error
              \/ /\ Fail(APIError)
                 /\ UNCHANGED <<page, delete_i>>
    /\ UNCHANGED <<nextId, blocks, cancel_on_discussion, run, prev_ok,
                   existing_blocks, match_lengths, prefix_len, suffix_len,
                   block_objs, appends, uploads>>
    /\ UNCHANGED discussion_counts
    /\ UNCHANGED <<resolveVars, retryVars, equivVars, filesVars, deepVars,
                   asset_log>>

\* Lines 500-503: one element of block_objs_with_uploaded_files.
PrepareBlock ==
    /\ pc = "prepare"
    /\ LET b == blocks_to_upload[Len(block_objs) + 1]
       IN  \/ /\ block_objs' = Append(block_objs, _block_with_uploaded_file(b))
              /\ uploads' = uploads + UploadCount(b)
              /\ asset_log' = asset_log \o _block_with_uploaded_file_calls(b)
              /\ pc' = Resume(blocks_to_delete, blocks_to_upload, delete_i,
                              Len(block_objs) + 1)
              /\ UNCHANGED error
           \/ \E n \in 1..UploadCount(b) :
                 /\ uploads' = uploads + n
                 /\ asset_log' = asset_log \o
                        CallsUntilRaise(_block_with_uploaded_file_calls(b), n)
                 /\ Fail(APIError)
                 /\ UNCHANGED block_objs
    /\ UNCHANGED <<page, nextId, blocks, cancel_on_discussion, run, prev_ok,
                   existing_blocks, match_lengths, prefix_len, suffix_len,
                   delete_i, deletes, appends>>
    /\ UNCHANGED discussion_counts
    /\ UNCHANGED <<resolveVars, retryVars, equivVars, filesVars, deepVars>>

\* Lines 505-519: the append call and the return.  A call that raises may
\* have been applied by the service before the error reached the caller.
AppendBlocks ==
    /\ pc = "append"
    /\ LET after_block == AfterBlock(existing_blocks, prefix_len)
       IN  /\ appends' = Append(appends,
                                [blocks |-> block_objs, after |-> after_block])
           /\ \/ /\ page' = AppendChildren(page, block_objs, after_block, nextId)
                 /\ nextId' = nextId + Len(block_objs)
                 /\ pc' = Resume(blocks_to_delete, <<>>, delete_i, 0)
                 /\ UNCHANGED error
              \/ /\ Fail(APIError)
                 /\ \/ UNCHANGED <<page, nextId>>
                    \/ /\ page' = AppendChildren(page, block_objs, after_block,
                                                 nextId)
                       /\ nextId' = nextId + Len(block_objs)
    /\ UNCHANGED <<blocks, cancel_on_discussion, run, prev_ok, existing_blocks,
                   match_lengths, prefix_len, suffix_len, delete_i, block_objs,
                   deletes, uploads>>
    /\ UNCHANGED discussion_counts
    /\ UNCHANGED <<resolveVars, retryVars, equivVars, filesVars, deepVars,
                   asset_log>>

\* upload_to_notion is called again with the same arguments.
NextRun ==
    /\ pc \in {"done", "failed"}
    /\ run < MaxRuns
    /\ run' = run + 1
    /\ prev_ok' = (pc = "done")
    /\ pc' = "list_blocks"
    /\ existing_blocks' = <<>>
    /\ match_lengths' = [prefix |-> 0, suffix |-> 0]
    /\ prefix_len' = 0
    /\ suffix_len' = 0
    /\ delete_i' = 0
    /\ block_objs' = <<>>
    /\ deletes' = <<>>
    /\ appends' = <<>>
    /\ uploads' = 0
    /\ error' = NoError
    /\ discussion_counts' = <<>>
    /\ asset_log' = <<>>
    /\ UNCHANGED <<page, nextId, blocks, cancel_on_discussion>>
    /\ UNCHANGED <<resolveVars, retryVars, equivVars, filesVars, deepVars>>

Next ==
    \/ ListBlocks
    \/ Diff
    \/ CheckDiscussions
    \/ DeleteBlock
    \/ PrepareBlock
    \/ AppendBlocks
    \/ NextRun

Spec == Init /\ [][Next]_vars

(***************************************************************************)
(* upload_to_notion from its first line: the parent and its child pages    *)
(* are fetched, the page is found by its title or created, its icon and    *)
(* cover are set and its sub-pages and sub-databases are looked for        *)
(* (lines 370-437); the run above follows.  The children of the target     *)
(* page, the local blocks and the discussions read take few values here.   *)
(***************************************************************************)
MaxChildren == 2         \* most child pages of the parent

\* The variables of the run that lines 370-437 leave alone.
syncVars == <<blocks, cancel_on_discussion, run, prev_ok, existing_blocks,
              match_lengths, prefix_len, suffix_len, delete_i, block_objs,
              deletes, appends, uploads, discussion_counts>>

Raised(t) == [type |-> t, blocks |-> 0, threads |-> 0]

ChildPages ==
    { ChildPage(Title, FALSE, FALSE), ChildPage(Title, TRUE, FALSE),
      ChildPage(Title, FALSE, TRUE), ChildPage(Title, TRUE, TRUE),
      ChildPage("Other", FALSE, FALSE) }

ExistingPages ==
    { <<>>,
      <<Paragraph("b"), BulletedItem("item", <<Divider>>),
        Image(NotionFile(HostedImg, "img.png", ""))>>,
      <<Image(NotionFile(HostedImg, "img.png", "")), Paragraph("b"),
        BulletedItem("item", <<Divider>>)>> }

LocalInputs ==
    { <<>>,
      <<Paragraph("a"), Image(ExternalFile(LocalImg, "img.png", ""))>>,
      <<Paragraph("b"), Paragraph("a")>>,
      <<Image(ExternalFile(LocalImg, "img.png", "")),
        BulletedItem("list", <<Image(ExternalFile(LocalImg, "img.png", ""))>>),
        Image(ExternalFile(LocalNew, "new.png", "")),
        BulletedItem("item", <<Divider>>)>> }

\* Argument cover_path (the local image) and argument cover_url.
CoverPath == "/docs/img.png"
CoverUrl == [scheme |-> "https", path |-> "/cover.png"]

\* The covers a page found by its title may have.
ExistingCovers ==
    { NoFile,
      NotionFile(HostedImg, "img.png", ""),
      NotionFile(HostedOld, "old.png", "") }

\* Lines 389-391: the positions of the child pages with the title.
pages_matching_title(children) ==
    {i \in 1..Len(children) : children[i].title = Title}

\* A resolution that takes the first page with the title.
OnePageMatches_FirstWins(matching) == TRUE

\* Line 398: assert len(pages_matching_title) == 1
OnePageMatches(matching) == Cardinality(matching) = 1

\* _get_uploaded_cover (lines 267-298): NoFile (None) when the existing
\* cover is hosted by the service and has the bytes of the local file.
_get_uploaded_cover(existing_cover, cover_path) ==
    IF /\ existing_cover.ftype = "notion"
       /\ _files_match(existing_cover.url, cover_path)
    THEN NoFile
    ELSE UploadedFile(cover_path, "")

\* _get_uploaded_cover (lines 267-298): the calls it makes, in order, when
\* none of them raises.
_get_uploaded_cover_calls(existing_cover, cover_path) ==
    IF _get_uploaded_cover(existing_cover, cover_path) = NoFile
    THEN <<>>
    ELSE <<UploadCall(cover_path), WaitReturn(cover_path)>>

\* The cover the page has once setattr(page, "cover", value) returned.
StoredCover(value) ==
    IF value.ftype = "file_upload"
    THEN NotionFile(value.url, value.name, value.caption)
    ELSE value

\* A check for sub-pages that never finds any.
HasSubpages_Never(child) == FALSE

\* Line 433: page.subpages is not empty.
HasSubpages(child) == child.subpages

\* Line 436: page.subdbs is not empty.
HasSubdbs(child) == child.subdbs

UploadInit ==
    /\ subpages \in SeqsUpTo(ChildPages, MaxChildren)
    /\ \E vs \in (IF Cardinality(pages_matching_title(subpages)) = 1
                    THEN ExistingPages ELSE {<<>>}) :
           page = [i \in 1..Len(vs) |-> [id |-> i, val |-> vs[i]]]
    /\ nextId = Len(page) + 1
    /\ blocks \in LocalInputs
    /\ cancel_on_discussion \in BOOLEAN
    /\ pc = "get_parent"
    /\ run = 1
    /\ prev_ok = FALSE
    /\ existing_blocks = <<>>
    /\ match_lengths = [prefix |-> 0, suffix |-> 0]
    /\ prefix_len = 0
    /\ suffix_len = 0
    /\ delete_i = 0
    /\ block_objs = <<>>
    /\ deletes = <<>>
    /\ appends = <<>>
    /\ uploads = 0
    /\ error = NoError
    /\ discussion_counts = <<>>
    /\ target = 0
    /\ creates = 0
    /\ icon \in {"", "rocket"}
    /\ cover \in {"", "url", "path"}
    /\ page_icon = ""
    /\ page_cover \in (IF Cardinality(pages_matching_title(subpages)) = 1
                        THEN ExistingCovers ELSE {NoFile})
    /\ setattrs = <<>>
    /\ cover_uploads = 0
    /\ NoComparison
    /\ NoFilesRun
    /\ NoDeepRun
    /\ asset_log = <<>>
    /\ fn = [rate_limited |-> 0, final |-> "return"]
    /\ attempt = 0
    /\ rpc = "idle"
    /\ calls = 0
    /\ sleeps = <<>>
    /\ outcome = ""

\* Lines 371-387: the parent and its child pages are fetched.
GetParent ==
    /\ pc = "get_parent"
    /\ \/ /\ pc' = "resolve_page"
          /\ UNCHANGED error
       \/ Fail(APIError)
    /\ UNCHANGED <<page, nextId, syncVars>>
    /\ UNCHANGED <<resolveVars, retryVars, equivVars, filesVars, deepVars,
                   asset_log>>

\* Lines 389-407: the page with the title is taken, or one is created.
ResolvePage ==
    /\ pc = "resolve_page"
    /\ LET matching == pages_matching_title(subpages)
       IN  IF matching # {}
           THEN IF OnePageMatches(matching)
                THEN /\ target' = CHOOSE i \in matching :
                                      \A j \in matching : i <= j
                     /\ pc' = "set_icon"
                     /\ UNCHANGED <<error, subpages, creates, page, nextId>>
                ELSE /\ Fail(Raised("AssertionError"))
                     /\ UNCHANGED <<subpages, target, creates, page, nextId>>
           ELSE /\ creates' = creates + 1
                /\ \/ /\ subpages' = Append(subpages,
                                             ChildPage(Title, FALSE, FALSE))
                      /\ target' = Len(subpages) + 1
                      /\ page' = <<>>
                      /\ nextId' = 1
                      /\ pc' = "set_icon"
                      /\ UNCHANGED error
                   \/ /\ Fail(APIError)
                      /\ UNCHANGED <<subpages, target, page, nextId>>
    /\ UNCHANGED <<icon, cover, page_icon, page_cover, setattrs, cover_uploads>>
    /\ UNCHANGED syncVars
    /\ UNCHANGED <<retryVars, equivVars, filesVars, deepVars, asset_log>>

\* Lines 409-414: setattr(page, "icon", icon_value).
SetIcon ==
    /\ pc = "set_icon"
    /\ setattrs' = Append(setattrs, "icon")
    /\ \/ /\ page_icon' = icon
          /\ pc' = "set_cover"
          /\ UNCHANGED error
       \/ /\ Fail(APIError)
          /\ UNCHANGED page_icon
    /\ UNCHANGED <<subpages, target, creates, icon, cover, page_cover,
                   cover_uploads>>
    /\ UNCHANGED <<page, nextId, syncVars>>
    /\ UNCHANGED <<retryVars, equivVars, filesVars, deepVars, asset_log>>

\* Lines 415-431: the cover is set to the uploaded local file (to what
\* _get_uploaded_cover returned), to the external URL, or to None.
SetCover ==
    /\ pc = "set_cover"
    /\ LET uploaded_cover == _get_uploaded_cover(page_cover, CoverPath)
           value == CASE cover = "path" -> uploaded_cover
                      [] cover = "url" -> ExternalFile(CoverUrl, "", "")
                      [] OTHER -> NoFile
           uploading == cover = "path" /\ uploaded_cover # NoFile
           cover_calls == IF cover = "path"
                          THEN _get_uploaded_cover_calls(page_cover, CoverPath)
                          ELSE <<>>
       IN  \/ /\ cover_uploads' = cover_uploads + (IF uploading THEN 1 ELSE 0)
              /\ setattrs' = Append(setattrs, "cover")
              /\ asset_log' =
                    asset_log \o cover_calls \o
                        (IF uploading
                         THEN <<Reference("cover", CoverPath)>> ELSE <<>>)
              /\ \/ /\ page_cover' = StoredCover(value)
                    /\ pc' = "check_subpages"
                    /\ UNCHANGED error
                 \/ /\ Fail(APIError)
                    /\ UNCHANGED page_cover
           \/ /\ uploading
              /\ cover_uploads' = cover_uploads + 1
              /\ asset_log' = asset_log \o CallsUntilRaise(cover_calls, 1)
              /\ Fail(APIError)
              /\ UNCHANGED <<setattrs, page_cover>>
    /\ UNCHANGED <<subpages, target, creates, icon, cover, page_icon>>
    /\ UNCHANGED <<page, nextId, syncVars>>
    /\ UNCHANGED <<retryVars, equivVars, filesVars, deepVars>>

\* Lines 433-434.
CheckSubpages ==
    /\ pc = "check_subpages"
    /\ \/ IF HasSubpages(subpages[target])
          THEN Fail(Raised("PageHasSubpagesError"))
          ELSE /\ pc' = "check_subdbs"
               /\ UNCHANGED error
       \/ Fail(APIError)
    /\ UNCHANGED <<page, nextId, syncVars>>
    /\ UNCHANGED <<resolveVars, retryVars, equivVars, filesVars, deepVars,
                   asset_log>>

\* Lines 436-437.
CheckSubdbs ==
    /\ pc = "check_subdbs"
    /\ \/ IF HasSubdbs(subpages[target])
          THEN Fail(Raised("PageHasDatabasesError"))
          ELSE /\ pc' = "list_blocks"
               /\ UNCHANGED error
       \/ Fail(APIError)
    /\ UNCHANGED <<page, nextId, syncVars>>
    /\ UNCHANGED <<resolveVars, retryVars, equivVars, filesVars, deepVars,
                   asset_log>>

UploadNext ==
    \/ GetParent
    \/ ResolvePage
    \/ SetIcon
    \/ SetCover
    \/ CheckSubpages
    \/ CheckSubdbs
    \/ ListBlocks
    \/ Diff
    \/ CheckDiscussions
    \/ DeleteBlock
    \/ PrepareBlock
    \/ AppendBlocks

SpecUpload == UploadInit /\ [][UploadNext]_vars

(***************************************************************************)
(* _retry_on_rate_limit (lines 39-66).  The wrapped callable is described  *)
(* by how it behaves call after call: it raises the rate-limit error on    *)
(* its first fn.rate_limited calls and then ends with fn.final, which is   *)
(* a return, an APIResponseError with another code, or another exception.  *)
(***************************************************************************)
_MAX_RETRIES == 8

MaxWait == 60

FinalOutcomes == {"return", "validation_error", "unauthorized", "ValueError"}

\* What the call number k (from 0) of fn does.
FnResult(f, k) == IF k < f.rate_limited THEN "rate_limited" ELSE f.final

\* except APIResponseError (line 50)
IsAPIResponseError(r) == r \in {"rate_limited", "validation_error", "unauthorized"}

\* A wrapper that retries every APIResponseError until the last attempt.
Reraise_OnlyLastAttempt(code, a) == a = _MAX_RETRIES - 1

\* A wrapper that sleeps after the last attempt too.
Reraise_NotAtLastAttempt(code, a) == code # "rate_limited"

\* Line 52: the caught error is raised again.
Reraise(code, a) == code # "rate_limited" \/ a = _MAX_RETRIES - 1

\* A backoff without the cap.
wait_time_Uncapped(a) == 2 ^ a

\* A backoff that starts at two seconds.
wait_time_FromTwo(a) == Min(2 ^ (a + 1), MaxWait)

\* Line 54
wait_time(a) == Min(2 ^ a, MaxWait)

RetryInit ==
    /\ page = <<>>
    /\ nextId = 1
    /\ blocks = <<>>
    /\ cancel_on_discussion = FALSE
    /\ pc = "retry"
    /\ run = 1
    /\ prev_ok = FALSE
    /\ existing_blocks = <<>>
    /\ match_lengths = [prefix |-> 0, suffix |-> 0]
    /\ prefix_len = 0
    /\ suffix_len = 0
    /\ delete_i = 0
    /\ block_objs = <<>>
    /\ deletes = <<>>
    /\ appends = <<>>
    /\ uploads = 0
    /\ error = NoError
    /\ discussion_counts = <<>>
    /\ Resolved
    /\ NoComparison
    /\ NoFilesRun
    /\ NoDeepRun
    /\ asset_log = <<>>
    /\ fn \in [rate_limited : 0..(_MAX_RETRIES + 1), final : FinalOutcomes]
    /\ attempt = 0
    /\ rpc = "call"
    /\ calls = 0
    /\ sleeps = <<>>
    /\ outcome = ""

\* Lines 48-62: one attempt; fn returns, or raises and the error is either
\* raised again or answered by the start of a sleep.
RetryCall ==
    /\ rpc = "call"
    /\ LET r == FnResult(fn, calls)
       IN  /\ calls' = calls + 1
           /\ IF r = "return"
              THEN /\ rpc' = "returned"
                   /\ outcome' = r
                   /\ UNCHANGED sleeps
              ELSE IF ~IsAPIResponseError(r) \/ Reraise(r, attempt)
              THEN /\ rpc' = "raised"
                   /\ outcome' = r
                   /\ UNCHANGED sleeps
              ELSE /\ rpc' = "sleep"
                   /\ sleeps' = Append(sleeps, wait_time(attempt))
                   /\ UNCHANGED outcome
    /\ UNCHANGED <<fn, attempt>>
    /\ UNCHANGED <<runVars, resolveVars, equivVars, filesVars, deepVars,
                   asset_log>>

\* time.sleep returns and the loop goes to its next attempt; leaving the
\* loop raises the AssertionError of lines 64-66.
RetrySleep ==
    /\ rpc = "sleep"
    /\ attempt' = attempt + 1
    /\ IF attempt + 1 < _MAX_RETRIES
       THEN /\ rpc' = "call"
            /\ UNCHANGED outcome
       ELSE /\ rpc' = "raised"
            /\ outcome' = "AssertionError"
    /\ UNCHANGED <<fn, calls, sleeps>>
    /\ UNCHANGED <<runVars, resolveVars, equivVars, filesVars, deepVars,
                   asset_log>>

RetryNext ==
    \/ RetryCall
    \/ RetrySleep

SpecRetry == RetryInit /\ [][RetryNext]_vars

\* The wrapper runs in one thread: a call of fn that ends and a sleep that
\* ends are followed by the wrapper's next step.
SpecRetryFair == SpecRetry /\ WF_vars(RetryNext)

(***************************************************************************)
(* One call of _is_existing_equivalent (lines 200-264) on a pair of        *)
(* blocks.  The blocks are parents with children down to two levels,       *)
(* images given as local paths, as files hosted by the service and as      *)
(* external URLs, with the names, captions and bytes alike or not, and     *)
(* blocks of other kinds.                                                  *)
(***************************************************************************)
LocalImage(c) == Image(ExternalFile(LocalImg, "img.png", c))

HostedImage(u, n, c) == Image(NotionFile(u, n, c))

ExternalImage(u, c) == Image(ExternalFile(u, "img.png", c))

EquivBlocks ==
    { Divider,
      Paragraph("a"),
      Paragraph("b"),
      BulletedItem("item", <<>>),
      BulletedItem("item", <<Paragraph("a")>>),
      BulletedItem("item", <<Paragraph("a"), Paragraph("b")>>),
      BulletedItem("other", <<Paragraph("a")>>),
      BulletedItem("item", <<BulletedItem("sub", <<Paragraph("a")>>)>>),
      BulletedItem("item", <<BulletedItem("sub", <<Paragraph("b")>>)>>),
      BulletedItem("item", <<BulletedItem("sub", <<Paragraph("a"), Divider>>)>>),
      BulletedItem("item", <<LocalImage("")>>),
      BulletedItem("item", <<HostedImage(HostedImg, "img.png", "")>>),
      LocalImage(""),
      LocalImage("cap"),
      HostedImage(HostedImg, "img.png", ""),
      HostedImage(HostedImg, "other.png", ""),
      HostedImage(HostedImg, "img.png", "cap"),
      HostedImage(HostedOld, "img.png", ""),
      ExternalImage(ExtImg, ""),
      ExternalImage(ExtImg, "cap"),
      ExternalImage(ExtOther, ""),
      Video(NotionFile(HostedImg, "img.png", "")),
      Video(ExternalFile(LocalImg, "img.png", "")) }

EquivInit ==
    /\ page = <<>>
    /\ nextId = 1
    /\ blocks = <<>>
    /\ cancel_on_discussion = FALSE
    /\ pc = "compare"
    /\ run = 1
    /\ prev_ok = FALSE
    /\ existing_blocks = <<>>
    /\ match_lengths = [prefix |-> 0, suffix |-> 0]
    /\ prefix_len = 0
    /\ suffix_len = 0
    /\ delete_i = 0
    /\ block_objs = <<>>
    /\ deletes = <<>>
    /\ appends = <<>>
    /\ uploads = 0
    /\ error = NoError
    /\ discussion_counts = <<>>
    /\ Resolved
    /\ fn = [rate_limited |-> 0, final |-> "return"]
    /\ attempt = 0
    /\ rpc = "idle"
    /\ calls = 0
    /\ sleeps = <<>>
    /\ outcome = ""
    /\ cmp_existing \in EquivBlocks
    /\ cmp_local \in EquivBlocks
    /\ cmp_result = ""
    /\ NoFilesRun
    /\ NoDeepRun
    /\ asset_log = <<>>

\* The call returns True or False; where it reads the children of the
\* existing block (line 243), the read may raise instead.
Compare ==
    /\ pc = "compare"
    /\ pc' = "compared"
    /\ \/ cmp_result' = IF _is_existing_equivalent(cmp_existing, cmp_local)
                         THEN "True" ELSE "False"
       \/ /\ cmp_existing.kind = cmp_local.kind
          /\ ~IsFileBlock(cmp_local)
          /\ IsParentBlock(cmp_existing)
          /\ cmp_result' = "APIResponseError"
    /\ UNCHANGED <<cmp_existing, cmp_local>>
    /\ UNCHANGED <<page, nextId, syncVars, error>>
    /\ UNCHANGED <<resolveVars, retryVars, filesVars, deepVars, asset_log>>

EquivNext == Compare

SpecEquiv == EquivInit /\ [][EquivNext]_vars

(***************************************************************************)
(* The file uploads of the two programs.  Either the upload_files command  *)
(* (_notion_scripts/upload_files.py, main) is run, once or several times   *)
(* over the same build and the same mapping file, or upload_to_notion is   *)
(* run on the blocks of the build.  The build holds images given as local  *)
(* paths (two of them with the same bytes, one whose file is missing), an  *)
(* image given by an external URL, a file attachment given as a local path *)
(* and a list item with a local image as its child.                        *)
(***************************************************************************)
MaxBuild == 2            \* most blocks of the build

FileBlocks ==
    { Image(ExternalFile(LocalImg, "img.png", "")),
      Image(ExternalFile(LocalCopy, "copy.png", "")),
      Image(ExternalFile(LocalNew, "new.png", "")),
      Image(ExternalFile(LocalMissing, "missing.png", "")),
      Image(ExternalFile(ExtImg, "img.png", "")),
      File(ExternalFile(LocalNew, "new.png", "")),
      BulletedItem("item", <<Image(ExternalFile(LocalImg, "img.png", ""))>>) }

\* The mapping file when the command starts: digest -> URL of the asset.
InitialMappings ==
    { <<>>,
      [k \in {"sha-img"} |-> HostedImg],
      [k \in {"sha-gone"} |-> HostedOld],
      [k \in {"sha-img"} |-> HostedExpired],
      [k \in {"sha-img", "sha-gone"} |->
          IF k = "sha-img" THEN HostedImg ELSE HostedOld] }

\* file_path.exists() (line 70)
FileExists(path) == path # LocalMissing.path

\* _extract_file_urls_from_blocks (lines 37-49): a set of URLs.
_extract_file_urls_from_blocks(bs) ==
    { bs[i].file.url : i \in { j \in 1..Len(bs) :
          /\ bs[j].kind \in {"image", "video", "audio", "pdf"}
          /\ bs[j].file.url.scheme = "file" } }

\* A lookup that never finds the digest.
MappingGet_Never(mapping, sha) == NoUrl

\* sha_mapping.get(file_sha) (line 74); NoUrl stands for None.
MappingGet(mapping, sha) ==
    IF sha \in DOMAIN mapping THEN mapping[sha] ELSE NoUrl

\* _process_file_url (lines 53-75)
_process_file_url(url, mapping) ==
    IF url.scheme # "file" \/ ~FileExists(url.path)
    THEN [file_sha |-> "", notion_url |-> NoUrl]
    ELSE [file_sha |-> _calculate_file_sha(url.path),
          notion_url |-> MappingGet(mapping, _calculate_file_sha(url.path))]

\* sha_mapping[file_sha] = notion_url (line 161)
MappingSet(mapping, sha, url) ==
    [k \in DOMAIN mapping \cup {sha} |-> IF k = sha THEN url ELSE mapping[k]]

\* Lines 168-173: the entries whose digest is not referenced are removed.
Pruned(mapping, referenced) ==
    [k \in DOMAIN mapping \cap referenced |-> mapping[k]]

FilesInit ==
    /\ \/ /\ fpc = "start"
          /\ frun = 1
          /\ mapping_file \in InitialMappings
          /\ blocks \in SeqsUpTo(FileBlocks, MaxBuild)
          /\ pc = "idle"
          /\ page = <<>>
       \/ /\ fpc = "idle"
          /\ frun = 0
          /\ mapping_file = <<>>
          /\ blocks \in SeqsUpTo(
                 {b \in FileBlocks : b.file.url # LocalMissing}, MaxBuild)
          /\ pc = "list_blocks"
          /\ page \in {<<>>, <<[id |-> 1,
                                 val |-> HostedImage(HostedImg, "img.png", "")]>>}
    /\ sha_mapping = <<>>
    /\ file_urls = {}
    /\ referenced_shas = {}
    /\ file_uploads = <<>>
    /\ ferror = NoFilesError
    /\ nextId = Len(page) + 1
    /\ cancel_on_discussion = FALSE
    /\ run = 1
    /\ prev_ok = FALSE
    /\ existing_blocks = <<>>
    /\ match_lengths = [prefix |-> 0, suffix |-> 0]
    /\ prefix_len = 0
    /\ suffix_len = 0
    /\ delete_i = 0
    /\ block_objs = <<>>
    /\ deletes = <<>>
    /\ appends = <<>>
    /\ uploads = 0
    /\ error = NoError
    /\ discussion_counts = <<>>
    /\ Resolved
    /\ NoComparison
    /\ NoDeepRun
    /\ asset_log = <<>>
    /\ fn = [rate_limited |-> 0, final |-> "return"]
    /\ attempt = 0
    /\ rpc = "idle"
    /\ calls = 0
    /\ sleeps = <<>>
    /\ outcome = ""

\* Lines 110-123: the mapping file and the build are read.
ReadFiles ==
    /\ fpc = "start"
    /\ sha_mapping' = mapping_file
    /\ file_urls' = _extract_file_urls_from_blocks(blocks)
    /\ referenced_shas' = {}
    /\ fpc' = "loop"
    /\ UNCHANGED <<mapping_file, file_uploads, frun, ferror>>
    /\ UNCHANGED <<runVars, resolveVars, retryVars, equivVars, deepVars,
                   asset_log>>

\* What ends main inside the upload of a file: session.upload (lines
\* 141-144) and wait_until_uploaded (line 146) are called directly, so the
\* first response of the service that is an error is raised, a rate-limit
\* response like any other; line 156 raises RuntimeError.
UploadErrors == {"rate_limited", "APIResponseError", "RuntimeError"}

\* The responses the remote call of lines 140-146 has had when its error
\* reaches main.
ResponsesBeforeRaise(code) == 1

\* Lines 137-161: the calls about a file that is not in the mapping, in
\* order, when none of them raises.
UploadAndRecord_calls(path) ==
    <<UploadCall(path), WaitReturn(path), Reference("mapping", path)>>

\* The calls made when the error is raised: by session.upload or
\* wait_until_uploaded, or by line 156 once the wait has returned.
UploadAndRecord_raised(path, code) ==
    IF code = "RuntimeError"
    THEN SubSeq(UploadAndRecord_calls(path), 1, 2)
    ELSE CallsUntilRaise(UploadAndRecord_calls(path), 1)

\* Lines 125-166: one iteration of the loop over the set file_urls.
ProcessFile ==
    /\ fpc = "loop"
    /\ \E file_url \in file_urls :
          LET r == _process_file_url(file_url, sha_mapping)
          IN  /\ file_urls' = file_urls \ {file_url}
              /\ IF r.file_sha = ""
                 THEN UNCHANGED <<sha_mapping, referenced_shas, file_uploads,
                                  fpc, ferror, asset_log>>
                 ELSE /\ referenced_shas' = referenced_shas \cup {r.file_sha}
                      /\ IF r.notion_url = NoUrl
                         THEN /\ file_uploads' =
                                    Append(file_uploads,
                                           [run |-> frun, path |-> file_url.path])
                              /\ \/ /\ sha_mapping' =
                                          MappingSet(sha_mapping, r.file_sha,
                                                     HostedUrl(file_url.path))
                                    /\ asset_log' = asset_log \o
                                          UploadAndRecord_calls(file_url.path)
                                    /\ UNCHANGED <<fpc, ferror>>
                                 \/ /\ fpc' = "failed"
                                    /\ \E code \in UploadErrors :
                                          /\ ferror' =
                                               [code |-> code,
                                                responses |->
                                                  ResponsesBeforeRaise(code)]
                                          /\ asset_log' = asset_log \o
                                                UploadAndRecord_raised(
                                                    file_url.path, code)
                                    /\ UNCHANGED sha_mapping
                         ELSE UNCHANGED <<sha_mapping, file_uploads, fpc,
                                          ferror, asset_log>>
    /\ UNCHANGED <<mapping_file, frun>>
    /\ UNCHANGED <<runVars, resolveVars, retryVars, equivVars, deepVars>>

\* The mapping is written also when an upload ended the loop with an error.
SaveMapping_AfterFailure ==
    /\ fpc \in {"loop", "failed"}
    /\ fpc = "loop" => file_urls = {}
    /\ sha_mapping' = Pruned(sha_mapping, referenced_shas)
    /\ mapping_file' = Pruned(sha_mapping, referenced_shas)
    /\ fpc' = "exit"
    /\ UNCHANGED <<file_urls, referenced_shas, file_uploads, frun, ferror>>
    /\ UNCHANGED <<runVars, resolveVars, retryVars, equivVars, deepVars,
                   asset_log>>

\* Lines 168-180: the unreferenced entries are removed and the mapping is
\* written to the file.
SaveMapping ==
    /\ fpc = "loop"
    /\ file_urls = {}
    /\ sha_mapping' = Pruned(sha_mapping, referenced_shas)
    /\ mapping_file' = Pruned(sha_mapping, referenced_shas)
    /\ fpc' = "exit"
    /\ UNCHANGED <<file_urls, referenced_shas, file_uploads, frun, ferror>>
    /\ UNCHANGED <<runVars, resolveVars, retryVars, equivVars, deepVars,
                   asset_log>>

\* The command is run again on the same build and mapping file.
FilesNextRun ==
    /\ fpc \in {"exit", "failed"}
    /\ frun < MaxRuns
    /\ frun' = frun + 1
    /\ fpc' = "start"
    /\ ferror' = NoFilesError
    /\ sha_mapping' = <<>>
    /\ file_urls' = {}
    /\ referenced_shas' = {}
    /\ asset_log' = <<>>
    /\ UNCHANGED <<mapping_file, file_uploads>>
    /\ UNCHANGED <<runVars, resolveVars, retryVars, equivVars, deepVars>>

FilesNext ==
    \/ ReadFiles
    \/ ProcessFile
    \/ SaveMapping
    \/ FilesNextRun
    \/ ListBlocks
    \/ Diff
    \/ CheckDiscussions
    \/ DeleteBlock
    \/ PrepareBlock
    \/ AppendBlocks

SpecFiles == FilesInit /\ [][FilesNext]_vars

(***************************************************************************)
(* The three places that upload a file: the cover and the blocks of        *)
(* upload_to_notion, run from its first line, and the mapping of the       *)
(* upload_files command.                                                   *)
(***************************************************************************)
AssetsInit == FilesInit \/ UploadInit

AssetsNext == FilesNext \/ UploadNext

SpecAssets == AssetsInit /\ [][AssetsNext]_vars

(***************************************************************************)
(* The upload command (_notion_scripts/upload.py, main): the blocks of the *)
(* JSON file are pre-processed; the children of a page that exists are     *)
(* deleted and _upload_blocks_with_deep_nesting uploads the blocks; a page *)
(* that does not exist is created with the first blocks and main uploads   *)
(* their deep children and the remaining blocks.  A block is a JSON       *)
(* object: its type, the rich_text list and the children of its type       *)
(* payload (`nested`), and the top-level key `children`, which the JSON    *)
(* written by the builder never has.  A rich-text object has a type, the   *)
(* text content and a plain_text; a text is a sequence of characters.      *)
(***************************************************************************)
MaxDeep == 2             \* most blocks of the JSON file
MaxBatch == 2            \* largest --batch-size

\* Line 16, the most blocks the service takes in one request; the source
\* has 100, the model a maximum that its block lists exceed.
NOTION_BLOCKS_BATCH_SIZE == 2

\* Line 15; the source has 2000, the model a limit that its texts exceed.
NOTION_RICH_TEXT_LIMIT == 2

Text(s) == [type |-> "text", content |-> s, plain_text |-> s]

\* A rich-text object that is no text: it has no text.content, and
\* `content` is the string of its own payload.
Equation(s) == [type |-> "equation", content |-> s, plain_text |-> s]

Item(t, cs) ==
    [type |-> "bulleted_list_item", rich_text |-> <<Text(t)>>,
     nested |-> cs, children |-> <<>>]

Para(t, cs) ==
    [type |-> "paragraph", rich_text |-> <<Text(t)>>,
     nested |-> cs, children |-> <<>>]

\* The types whose children the engine reads in the type payload
\* (lines 109-124, 138-169, 183-192).
NestedTypes ==
    {"bulleted_list_item", "numbered_list_item", "to_do", "toggle", "quote",
     "callout", "synced_block", "column"}

\* The types whose text _get_block_content reads (lines 208-227).
ContentTypes ==
    {"bulleted_list_item", "numbered_list_item", "to_do", "toggle", "quote",
     "heading_1", "heading_2", "heading_3", "paragraph", "callout", "code"}

\* content[i : i + NOTION_RICH_TEXT_LIMIT] for i in steps of the limit
\* (lines 35-36)
RECURSIVE Chunks(_)
Chunks(content) ==
    IF Len(content) <= NOTION_RICH_TEXT_LIMIT
    THEN <<content>>
    ELSE <<SubSeq(content, 1, NOTION_RICH_TEXT_LIMIT)>>
         \o Chunks(SubSeq(content, NOTION_RICH_TEXT_LIMIT + 1, Len(content)))

\* A split that keeps the first chunk only.
RECURSIVE _split_rich_text_FirstChunk(_)
_split_rich_text_FirstChunk(rich_text) ==
    IF rich_text = <<>>
    THEN <<>>
    ELSE <<[Head(rich_text) EXCEPT !.content = Head(Chunks(@))]>>
         \o _split_rich_text_FirstChunk(Tail(rich_text))

\* _split_rich_text (lines 23-44): the copies of a split object differ in
\* text.content only; plain_text is copied as it is.
RECURSIVE _split_rich_text(_)
_split_rich_text(rich_text) ==
    IF rich_text = <<>>
    THEN <<>>
    ELSE LET obj == Head(rich_text)
             chunks == Chunks(obj.content)
         IN  (IF obj.type = "text" /\ Len(obj.content) > NOTION_RICH_TEXT_LIMIT
              THEN [i \in 1..Len(chunks) |-> [obj EXCEPT !.content = chunks[i]]]
              ELSE <<obj>>)
             \o _split_rich_text(Tail(rich_text))

\* _process_block (lines 47-75): the value returned.  The lists of the
\* payload and the top-level lists are processed element by element.
RECURSIVE _process_block(_)
_process_block(block) ==
    [type |-> block.type,
     rich_text |-> _split_rich_text(block.rich_text),
     nested |-> [i \in 1..Len(block.nested) |-> _process_block(block.nested[i])],
     children |-> [i \in 1..Len(block.children) |->
                      _process_block(block.children[i])]]

\* The argument of _process_block once it returned: line 61 assigns the
\* split list to the payload of the argument itself, on every level, since
\* dict(block) copies the outer dict only.
_process_block_Argument(block) == _process_block(block)

\* _get_block_children (lines 104-128)
_get_block_children(block) ==
    IF block.type \in NestedTypes THEN block.nested ELSE block.children

\* _set_block_children (lines 131-174): the value returned.
_set_block_children(block, cs) ==
    IF block.type \in NestedTypes
    THEN [block EXCEPT !.nested = cs]
    ELSE [block EXCEPT !.children = cs]

\* _remove_block_children (lines 177-198): the value returned.
_remove_block_children(block) ==
    IF block.type \in NestedTypes
    THEN [block EXCEPT !.nested = <<>>]
    ELSE [block EXCEPT !.children = <<>>]

\* Text of a list of rich-text objects, by the field the reader joins.
RECURSIVE JoinPlainText(_)
JoinPlainText(rich_text) ==
    IF rich_text = <<>>
    THEN <<>>
    ELSE Head(rich_text).plain_text \o JoinPlainText(Tail(rich_text))

\* _get_block_content (lines 201-230); a block of the JSON file has no id.
_get_block_content(block) ==
    IF block.type \in ContentTypes
    THEN JoinPlainText(block.rich_text)
    ELSE IF "id" \in DOMAIN block THEN <<block.id>> ELSE <<>>

\* A test that lets one more level through.
IsDeep_OneLevelLate(current_depth, max_depth, child_children) ==
    current_depth > max_depth /\ child_children # <<>>

\* Line 257
IsDeep(current_depth, max_depth, child_children) ==
    current_depth >= max_depth /\ child_children # <<>>

\* process_block (lines 246-287) and its loop over the children (lines
\* 254-277): the value returned and the pairs added to deep_upload_tasks.
RECURSIVE process_block(_, _, _), process_children(_, _, _)
process_children(cs, current_depth, max_depth) ==
    IF cs = <<>>
    THEN [children |-> <<>>, tasks |-> <<>>]
    ELSE LET child == Head(cs)
             child_children == _get_block_children(child)
             child_copy == _remove_block_children(child)
             processed == process_block(child, current_depth + 1, max_depth)
             first ==
                 IF IsDeep(current_depth, max_depth, child_children)
                 THEN [child |-> child_copy,
                       tasks |-> <<[placeholder |-> child_copy,
                                    deep_children |-> child_children]>>]
                 ELSE [child |->
                           IF _get_block_children(processed.block) = <<>>
                           THEN _remove_block_children(processed.block)
                           ELSE processed.block,
                       tasks |-> processed.tasks]
             rest == process_children(Tail(cs), current_depth, max_depth)
         IN  [children |-> <<first.child>> \o rest.children,
              tasks |-> first.tasks \o rest.tasks]

process_block(block, current_depth, max_depth) ==
    IF _get_block_children(block) = <<>>
    THEN [block |-> block, tasks |-> <<>>]
    ELSE LET processed ==
                 process_children(_get_block_children(block),
                                  current_depth, max_depth)
         IN  [block |-> IF processed.children # <<>>
                        THEN _set_block_children(block, processed.children)
                        ELSE _remove_block_children(block),
              tasks |-> processed.tasks]

\* The children beyond the limit are removed and not recorded.
RECURSIVE _extract_deep_children_NoTasks(_, _)
_extract_deep_children_NoTasks(bs, max_depth) ==
    IF bs = <<>>
    THEN [processed_blocks |-> <<>>, deep_upload_tasks |-> <<>>]
    ELSE LET first == process_block(Head(bs), 0, max_depth)
             rest == _extract_deep_children_NoTasks(Tail(bs), max_depth)
         IN  [processed_blocks |-> <<first.block>> \o rest.processed_blocks,
              deep_upload_tasks |-> <<>>]

\* _extract_deep_children (lines 233-293)
RECURSIVE _extract_deep_children(_, _)
_extract_deep_children(bs, max_depth) ==
    IF bs = <<>>
    THEN [processed_blocks |-> <<>>, deep_upload_tasks |-> <<>>]
    ELSE LET first == process_block(Head(bs), 0, max_depth)
             rest == _extract_deep_children(Tail(bs), max_depth)
         IN  [processed_blocks |-> <<first.block>> \o rest.processed_blocks,
              deep_upload_tasks |-> first.tasks \o rest.deep_upload_tasks]

\* The argument of process_block once it returned.  dict(block) copies the
\* outer dict only, so block_copy[type] is the payload of the argument:
\* _remove_block_children pops its children (line 194) and
\* _set_block_children replaces them by the processed ones (lines 141-169).
\* A top-level `children` list is popped or replaced in the copy alone and
\* keeps its elements, which the calls on them have changed.
RECURSIVE process_block_Argument(_, _, _)
process_block_Argument(block, current_depth, max_depth) ==
    LET cs == _get_block_children(block)
    IN  IF cs = <<>>
        THEN block
        ELSE IF block.type \in NestedTypes
        THEN process_block(block, current_depth, max_depth).block
        ELSE [block EXCEPT !.children =
                [i \in 1..Len(cs) |->
                    IF IsDeep(current_depth, max_depth,
                              _get_block_children(cs[i]))
                    THEN IF cs[i].type \in NestedTypes
                         THEN _remove_block_children(cs[i])
                         ELSE cs[i]
                    ELSE process_block_Argument(cs[i], current_depth + 1,
                                                max_depth)]]

\* The argument of _extract_deep_children once it returned.
_extract_deep_children_Argument(bs, max_depth) ==
    [i \in 1..Len(bs) |-> process_block_Argument(bs[i], 0, max_depth)]

\* The service: a block it holds is [id, parent, type, rich_text]; the
\* children of a block are the blocks with that parent, in the order of
\* `remote`.  The page has id 0.
PageId == 0

\* _find_existing_page_by_title returned None.
NoPage == -1

\* The rich text as the service stores and returns it: plain_text is the
\* content of each object.
Served(rich_text) ==
    [i \in 1..Len(rich_text) |->
        [rich_text[i] EXCEPT !.plain_text = rich_text[i].content]]

RECURSIVE TreeSize(_), ForestSize(_)
ForestSize(bs) ==
    IF bs = <<>> THEN 0 ELSE TreeSize(Head(bs)) + ForestSize(Tail(bs))

TreeSize(block) == 1 + ForestSize(block.nested)

\* The blocks the service creates for the children of an append call, the
\* children of their payloads included, with ids from `first` on.
RECURSIVE CreatedBlocks(_, _, _)
CreatedBlocks(parent, bs, first) ==
    IF bs = <<>>
    THEN <<>>
    ELSE <<[id |-> first, parent |-> parent, type |-> Head(bs).type,
            rich_text |-> Served(Head(bs).rich_text)]>>
         \o CreatedBlocks(first, Head(bs).nested, first + 1)
         \o CreatedBlocks(parent, Tail(bs), first + TreeSize(Head(bs)))

ChildrenOf(nodes, parent_id) ==
    SelectSeq(nodes, LAMBDA n : n.parent = parent_id)

\* _get_all_uploaded_blocks_recursively (lines 296-322)
RECURSIVE _get_all_uploaded_blocks_recursively(_, _), AllBlocksOf(_, _)
AllBlocksOf(nodes, immediate_blocks) ==
    IF immediate_blocks = <<>>
    THEN <<>>
    ELSE <<Head(immediate_blocks)>>
         \o _get_all_uploaded_blocks_recursively(nodes, Head(immediate_blocks).id)
         \o AllBlocksOf(nodes, Tail(immediate_blocks))

_get_all_uploaded_blocks_recursively(nodes, parent_id) ==
    AllBlocksOf(nodes, ChildrenOf(nodes, parent_id))

\* _blocks_match (lines 410-424)
_blocks_match(template_block, uploaded_block) ==
    /\ template_block.type = uploaded_block.type
    /\ _get_block_content(template_block) = _get_block_content(uploaded_block)

\* _find_matching_block_id (lines 376-407): the id of the first block of the
\* list that matches, 0 for None.  The listed blocks have no `children` key.
_find_matching_block_id(template_block, uploaded_blocks) ==
    LET matching == {i \in 1..Len(uploaded_blocks) :
                        _blocks_match(template_block, uploaded_blocks[i])}
    IN  IF matching = {}
        THEN 0
        ELSE uploaded_blocks[CHOOSE i \in matching :
                                \A j \in matching : i <= j].id

\* All the blocks in one batch.
Batches_OneCall(bs, size) == IF bs = <<>> THEN <<>> ELSE <<bs>>

\* blocks[i : i + batch_size] for i in steps of batch_size (lines 444-445)
RECURSIVE Batches(_, _)
Batches(bs, size) ==
    IF bs = <<>>
    THEN <<>>
    ELSE <<SubSeq(bs, 1, Min(size, Len(bs)))>>
         \o Batches(SubSeq(bs, Min(size, Len(bs)) + 1, Len(bs)), size)

\* The append calls of _upload_blocks_in_batches (lines 444-461)
AppendCalls(block_id, batches) ==
    [i \in 1..Len(batches) |-> [block_id |-> block_id, children |-> batches[i]]]

\* The blocks of the JSON file.
A == <<"a">>
B == <<"b">>
C == <<"c">>
D == <<"d">>

DeepUniverse ==
    { Para(A, <<>>),
      Item(<<"a", "a", "a">>, <<>>),
      Item(A, <<Item(B, <<Item(C, <<>>)>>)>>),
      Item(A, <<Item(B, <<Item(C, <<Item(D, <<>>)>>)>>)>>),
      Item(A, <<Item(B, <<Item(C, <<Item(D, <<>>)>>),
                          Item(C, <<Item(A, <<>>)>>)>>)>>),
      Item(A, <<Item(B, <<Item(C,
          <<Item(D, <<Item(A, <<Item(B, <<Item(C, <<>>)>>)>>)>>)>>)>>)>>),
      Para(A, <<Item(B, <<Item(C, <<Item(D, <<>>)>>)>>)>>),
      Item(A, <<Item(B, <<Item(D,
          <<Item(A, <<>>), Item(B, <<>>), Item(C, <<>>)>>)>>)>>),
      [Item(A, <<>>) EXCEPT
          !.rich_text = <<Text(<<"a", "a", "a", "a", "a">>),
                          Equation(<<"e", "e", "e">>), Text(B)>>] }

\* The children the page has when the command starts.
ExistingChildren ==
    { <<>>,
      <<[id |-> 1, parent |-> PageId, type |-> "paragraph",
         rich_text |-> <<Text(A)>>]>> }

DeepIdle ==
    /\ page = <<>>
    /\ nextId = 1
    /\ blocks = <<>>
    /\ cancel_on_discussion = FALSE
    /\ pc = "idle"
    /\ run = 1
    /\ prev_ok = FALSE
    /\ existing_blocks = <<>>
    /\ match_lengths = [prefix |-> 0, suffix |-> 0]
    /\ prefix_len = 0
    /\ suffix_len = 0
    /\ delete_i = 0
    /\ block_objs = <<>>
    /\ deletes = <<>>
    /\ appends = <<>>
    /\ uploads = 0
    /\ error = NoError
    /\ discussion_counts = <<>>
    /\ Resolved
    /\ NoComparison
    /\ NoFilesRun
    /\ fn = [rate_limited |-> 0, final |-> "return"]
    /\ attempt = 0
    /\ rpc = "idle"
    /\ calls = 0
    /\ sleeps = <<>>
    /\ outcome = ""

DeepInit ==
    /\ contents \in SeqsUpTo(DeepUniverse, MaxDeep)
    /\ processed_contents = <<>>
    /\ batch_size \in 1..MaxBatch
    /\ remote \in ExistingChildren
    /\ existing_page_id \in
           (IF remote = <<>> THEN {PageId, NoPage} ELSE {PageId})
    /\ next_block_id = Len(remote) + 1
    /\ append_calls = <<>>
    /\ call = NoCall
    /\ stack = <<>>
    /\ dpc = "process"
    /\ derror = ""
    /\ asset_log = <<>>
    /\ DeepIdle

\* An exception ends the command.
DeepFail(e) ==
    /\ dpc' = "failed"
    /\ derror' = e

\* Lines 507-515: the blocks are pre-processed and the page is looked up
\* by its title.
ProcessContents ==
    /\ dpc = "process"
    /\ processed_contents' =
           [i \in 1..Len(contents) |-> _process_block(contents[i])]
    /\ contents' =
           [i \in 1..Len(contents) |-> _process_block_Argument(contents[i])]
    /\ dpc' = IF existing_page_id = NoPage THEN "create" ELSE "clear"
    /\ UNCHANGED <<batch_size, existing_page_id, remote, next_block_id,
                   append_calls, call, stack, derror>>
    /\ UNCHANGED <<runVars, resolveVars, retryVars, equivVars, filesVars,
                   asset_log>>

\* Lines 511-528: the page is found by its title and each of its children
\* is deleted; a remote call that raises ends the command with the deletes
\* made so far.
ClearPage ==
    /\ dpc = "clear"
    /\ \/ /\ remote' = <<>>
          /\ call' = [page_id |-> PageId, blocks |-> processed_contents]
          /\ dpc' = "call"
          /\ UNCHANGED derror
       \/ /\ \E k \in 0..Len(remote) : remote' = SubSeq(remote, k + 1, Len(remote))
          /\ DeepFail("APIResponseError")
          /\ UNCHANGED call
    /\ UNCHANGED <<contents, processed_contents, batch_size,
                   existing_page_id, next_block_id, append_calls, stack>>
    /\ UNCHANGED <<runVars, resolveVars, retryVars, equivVars, filesVars,
                   asset_log>>

\* Lines 539-624, a page that does not exist: pages.create is called with
\* the first batch_size blocks, or with all the blocks when they are no
\* more than that, without their deep children; when there are deep tasks
\* the children of the new page are listed (they have no `children` key).
\* The loops of lines 566-578 and 612-624 are the same; the first one is
\* followed by the upload of the remaining blocks.
CreatePage ==
    /\ dpc = "create"
    /\ LET n == Len(processed_contents)
           first == SubSeq(processed_contents, 1, Min(n, batch_size))
           remaining == SubSeq(processed_contents, Min(n, batch_size) + 1, n)
           extracted == _extract_deep_children(first, 1)
           created == CreatedBlocks(PageId, extracted.processed_blocks,
                                    next_block_id)
       IN  /\ processed_contents' =
                  _extract_deep_children_Argument(first, 1) \o remaining
           /\ \/ /\ remote' = remote \o created
                 /\ next_block_id' = next_block_id + Len(created)
                 /\ \/ /\ stack' =
                              <<[page_id |-> PageId,
                                 tasks |-> extracted.deep_upload_tasks,
                                 uploaded_blocks |->
                                     ChildrenOf(remote \o created, PageId),
                                 asserted |-> FALSE,
                                 remaining |-> remaining]>>
                       /\ dpc' = "loop"
                       /\ UNCHANGED derror
                    \/ /\ extracted.deep_upload_tasks # <<>>
                       /\ DeepFail("APIResponseError")
                       /\ UNCHANGED stack
              \/ /\ DeepFail("APIResponseError")
                 /\ UNCHANGED <<remote, next_block_id, stack>>
    /\ UNCHANGED <<contents, batch_size, existing_page_id, append_calls, call>>
    /\ UNCHANGED <<runVars, resolveVars, retryVars, equivVars, filesVars,
                   asset_log>>

\* _upload_blocks_with_deep_nesting up to its loop (lines 334-358): the deep
\* children are extracted, the blocks are appended batch by batch and, when
\* there are tasks, the blocks below page_id are listed.  The call of main
\* has processed_contents for its argument.
UploadBlocks ==
    /\ dpc = "call"
    /\ call' = NoCall
    /\ IF call.blocks = <<>>
       THEN /\ dpc' = "loop"
            /\ UNCHANGED <<processed_contents, remote, next_block_id,
                           append_calls, stack, derror>>
       ELSE LET extracted == _extract_deep_children(call.blocks, 1)
                batches == Batches(extracted.processed_blocks, batch_size)
                created == CreatedBlocks(call.page_id,
                                         extracted.processed_blocks,
                                         next_block_id)
            IN  /\ processed_contents' =
                       IF call.page_id = PageId
                       THEN SubSeq(processed_contents, 1,
                                   Len(processed_contents) - Len(call.blocks))
                            \o _extract_deep_children_Argument(call.blocks, 1)
                       ELSE processed_contents
                /\ \/ /\ remote' = remote \o created
                      /\ next_block_id' = next_block_id + Len(created)
                      /\ append_calls' =
                             append_calls \o AppendCalls(call.page_id, batches)
                      /\ \/ /\ stack' =
                                   IF extracted.deep_upload_tasks = <<>>
                                   THEN stack
                                   ELSE Append(stack,
                                          [page_id |-> call.page_id,
                                           tasks |-> extracted.deep_upload_tasks,
                                           uploaded_blocks |->
                                             _get_all_uploaded_blocks_recursively(
                                                 remote \o created, call.page_id),
                                           asserted |-> TRUE,
                                           remaining |-> <<>>])
                            /\ dpc' = "loop"
                            /\ UNCHANGED derror
                         \/ /\ extracted.deep_upload_tasks # <<>>
                            /\ DeepFail("APIResponseError")
                            /\ UNCHANGED stack
                   \/ \E k \in 0..(Len(batches) - 1) :
                         LET done == CreatedBlocks(call.page_id,
                                         Concat(SubSeq(batches, 1, k)),
                                         next_block_id)
                         IN  /\ remote' = remote \o done
                             /\ next_block_id' = next_block_id + Len(done)
                             /\ append_calls' =
                                    append_calls
                                    \o AppendCalls(call.page_id,
                                                   SubSeq(batches, 1, k + 1))
                             /\ DeepFail("APIResponseError")
                             /\ UNCHANGED stack
    /\ UNCHANGED <<contents, batch_size, existing_page_id>>
    /\ UNCHANGED <<runVars, resolveVars, retryVars, equivVars, filesVars,
                   asset_log>>

\* One iteration of the loop over deep_upload_tasks (lines 361-373), or of
\* the loops of main (lines 566-578, 612-624), up to the call it makes.
\* _upload_blocks_with_deep_nesting asserts that the placeholder was found;
\* main goes on to the next task when it was not.
NextTask ==
    /\ dpc = "loop"
    /\ stack # <<>>
    /\ stack[Len(stack)].tasks # <<>>
    /\ LET frame == stack[Len(stack)]
           task == Head(frame.tasks)
           matching_block_id ==
               _find_matching_block_id(task.placeholder, frame.uploaded_blocks)
       IN  IF matching_block_id = 0 /\ frame.asserted
           THEN /\ DeepFail("AssertionError")
                /\ UNCHANGED <<call, stack>>
           ELSE IF matching_block_id = 0
           THEN /\ stack' = [stack EXCEPT ![Len(stack)].tasks = Tail(@)]
                /\ UNCHANGED <<call, dpc, derror>>
           ELSE /\ call' = [page_id |-> matching_block_id,
                            blocks |-> task.deep_children]
                /\ stack' = [stack EXCEPT ![Len(stack)].tasks = Tail(@)]
                /\ dpc' = "call"
                /\ UNCHANGED derror
    /\ UNCHANGED <<contents, processed_contents, batch_size,
                   existing_page_id, remote,
                   next_block_id, append_calls>>
    /\ UNCHANGED <<runVars, resolveVars, retryVars, equivVars, filesVars,
                   asset_log>>

\* A loop over deep tasks has ended: the call of
\* _upload_blocks_with_deep_nesting returns to the loop that made it, and
\* main uploads the remaining blocks, if any (lines 581-587).
ReturnFromCall ==
    /\ dpc = "loop"
    /\ stack # <<>>
    /\ stack[Len(stack)].tasks = <<>>
    /\ IF stack[Len(stack)].remaining # <<>>
       THEN /\ call' = [page_id |-> stack[Len(stack)].page_id,
                        blocks |-> stack[Len(stack)].remaining]
            /\ stack' = [stack EXCEPT ![Len(stack)].remaining = <<>>]
            /\ dpc' = "call"
       ELSE /\ stack' = SubSeq(stack, 1, Len(stack) - 1)
            /\ UNCHANGED <<call, dpc>>
    /\ UNCHANGED <<contents, processed_contents, batch_size,
                   existing_page_id, remote,
                   next_block_id, append_calls, derror>>
    /\ UNCHANGED <<runVars, resolveVars, retryVars, equivVars, filesVars,
                   asset_log>>

\* Lines 536-538, 588-592, 626: the command ends.
Finish ==
    /\ dpc = "loop"
    /\ stack = <<>>
    /\ dpc' = "done"
    /\ UNCHANGED <<contents, processed_contents, batch_size,
                   existing_page_id, remote,
                   next_block_id, append_calls, call, stack, derror>>
    /\ UNCHANGED <<runVars, resolveVars, retryVars, equivVars, filesVars,
                   asset_log>>

DeepNext ==
    \/ ProcessContents
    \/ ClearPage
    \/ CreatePage
    \/ UploadBlocks
    \/ NextTask
    \/ ReturnFromCall
    \/ Finish

SpecDeep == DeepInit /\ [][DeepNext]_vars

(***************************************************************************)
(* Properties of the run and of the diff.                                  *)
(***************************************************************************)
\* The positions of a run at which the diff has been computed.
AfterDiff == pc \in {"discussions", "delete", "prepare", "append", "done"}

Ids(bs) == [i \in 1..Len(bs) |-> bs[i].id]

Prepared(bs) == [i \in 1..Len(bs) |-> _block_with_uploaded_file(bs[i])]

FirstEquivalent(existing, local) ==
    _is_existing_equivalent(existing[1].val, local[1])

LastEquivalent(existing, local) ==
    _is_existing_equivalent(existing[Len(existing)].val, local[Len(local)])

C3_NoPrefixSuppressesSuffix ==
    (AfterDiff /\ match_lengths.prefix = 0) =>
        /\ suffix_len = 0
        /\ blocks_to_delete = existing_blocks
        /\ blocks_to_upload = blocks
        /\ pc = "done" =>
               /\ deletes = Ids(existing_blocks)
               /\ blocks # <<>> =>
                      appends = <<[blocks |-> Prepared(blocks), after |-> 0]>>

\* A run without a prefix whose trailing blocks matched, that has returned.
C3_Witness ==
    /\ pc = "done"
    /\ match_lengths.prefix = 0
    /\ match_lengths.suffix >= 1
    /\ Len(existing_blocks) = 2
    /\ Len(blocks) = 2

\* C4 as stated: the value the diff returns has suffix 0 whenever it has
\* prefix 0.
C4_ReturnedSuffixZeroWithoutPrefix ==
    AfterDiff => (match_lengths.prefix = 0 => match_lengths.suffix = 0)

\* C4: the lengths upload_to_notion uses after its adjustment of the value
\* the diff returned have suffix 0 whenever they have prefix 0; with a
\* prefix they are the returned lengths.
C4_UsedSuffixZeroWithoutPrefix ==
    AfterDiff =>
        /\ prefix_len = match_lengths.prefix
        /\ prefix_len = 0 => suffix_len = 0
        /\ prefix_len > 0 => suffix_len = match_lengths.suffix

\* The adjustment changed what the diff returned.
C4_Witness ==
    /\ AfterDiff
    /\ match_lengths.prefix = 0
    /\ match_lengths.suffix >= 1
    /\ suffix_len = 0

\* C5: the diff counts the suffix independently of the prefix: first
\* blocks that are not equivalent and last blocks that are equivalent give
\* prefix 0 and a suffix of at least 1.
C5_SuffixIndependentOfPrefix ==
    (/\ AfterDiff
     /\ Len(existing_blocks) >= 1
     /\ Len(blocks) >= 1
     /\ ~FirstEquivalent(existing_blocks, blocks)
     /\ LastEquivalent(existing_blocks, blocks)) =>
        /\ match_lengths.prefix = 0
        /\ match_lengths.suffix >= 1

\* [old, D] against [new, D]: prefix 0, suffix 1.
C5_Witness ==
    /\ AfterDiff
    /\ Len(existing_blocks) = 2
    /\ Len(blocks) = 2
    /\ ~FirstEquivalent(existing_blocks, blocks)
    /\ LastEquivalent(existing_blocks, blocks)
    /\ match_lengths = [prefix |-> 0, suffix |-> 1]

\* C6: with a non-empty prefix and a suffix around a differing middle the
\* run deletes exactly the middle existing blocks and uploads exactly the
\* middle local blocks, in one append anchored after the last prefix block;
\* the blocks of the prefix and of the suffix stay on the page.
C6_OnlyMiddleReplaced ==
    (pc = "done" /\ prefix_len >= 1 /\ suffix_len >= 1) =>
        LET E == Len(existing_blocks)
            L == Len(blocks)
            middle == SubSeq(blocks, prefix_len + 1, L - suffix_len)
        IN  /\ deletes = Ids(SubSeq(existing_blocks, prefix_len + 1, E - suffix_len))
            /\ appends = IF middle = <<>> THEN <<>>
                         ELSE <<[blocks |-> Prepared(middle),
                                 after |-> existing_blocks[prefix_len].id]>>
            /\ SubSeq(page, 1, prefix_len) = SubSeq(existing_blocks, 1, prefix_len)
            /\ SubSeq(page, Len(page) - suffix_len + 1, Len(page))
                   = SubSeq(existing_blocks, E - suffix_len + 1, E)
            /\ \A i \in 1..Len(deletes) :
                   \A j \in (1..prefix_len) \cup ((E - suffix_len + 1)..E) :
                       deletes[i] # existing_blocks[j].id

\* existing [A, B, C], local [A, X, C]: prefix 1, suffix 1, one delete and
\* one append of one block.
C6_Witness ==
    /\ pc = "done"
    /\ Len(existing_blocks) = 3
    /\ Len(blocks) = 3
    /\ prefix_len = 1
    /\ suffix_len = 1
    /\ Len(deletes) = 1
    /\ Len(appends) = 1
    /\ Len(appends[1].blocks) = 1

\* C7: prefix + suffix never exceeds the length of the shorter sequence,
\* so the delete range and the upload range have a non-negative length and
\* hold no matched block.
C7_NoOverlap ==
    AfterDiff =>
        LET E == Len(existing_blocks)
            L == Len(blocks)
        IN  /\ match_lengths.prefix + match_lengths.suffix <= Min(E, L)
            /\ prefix_len <= E - suffix_len
            /\ prefix_len <= L - suffix_len
            /\ Len(blocks_to_delete) = E - prefix_len - suffix_len
            /\ Len(blocks_to_upload) = L - prefix_len - suffix_len

\* The suffix scan stopped at the bound: the matched prefix and suffix
\* cover the whole shorter sequence.
C7_Witness ==
    /\ AfterDiff
    /\ match_lengths.prefix >= 1
    /\ match_lengths.suffix >= 1
    /\ match_lengths.prefix + match_lengths.suffix
           = Min(Len(existing_blocks), Len(blocks))
    /\ Len(existing_blocks) # Len(blocks)

\* C8: the diff is maximal: the prefix is the longest run of equivalent
\* pairs from the start within the shorter length m, and the suffix is the
\* longest run of equivalent pairs from the end within m - prefix.
C8_Maximal ==
    AfterDiff =>
        LET e == Vals(existing_blocks)
            E == Len(existing_blocks)
            L == Len(blocks)
            m == Min(E, L)
            p == match_lengths.prefix
            s == match_lengths.suffix
        IN  /\ p \in 0..m
            /\ \A i \in 1..p : _is_existing_equivalent(e[i], blocks[i])
            /\ p < m => ~_is_existing_equivalent(e[p + 1], blocks[p + 1])
            /\ s \in 0..(m - p)
            /\ \A j \in 1..s :
                   _is_existing_equivalent(e[E - j + 1], blocks[L - j + 1])
            /\ s < m - p => ~_is_existing_equivalent(e[E - s], blocks[L - s])

\* Both scans stopped at a mismatch, and a later pair of the prefix scan
\* is equivalent again.
C8_Witness ==
    /\ AfterDiff
    /\ Len(existing_blocks) = 3
    /\ Len(blocks) = 3
    /\ match_lengths = [prefix |-> 1, suffix |-> 1]

(***************************************************************************)
(* Properties of the retry wrapper.                                        *)
(***************************************************************************)
\* fn signals rate-limiting on every call the wrapper can make, and beyond.
AlwaysRateLimited == fn.rate_limited > _MAX_RETRIES

\* C9 as stated: a call that always signals rate-limiting is retried, that
\* is invoked again after a failure, exactly _MAX_RETRIES times before the
\* wrapper raises.
C9_RetriedMaxRetriesTimes ==
    (rpc = "raised" /\ AlwaysRateLimited) => calls - 1 = _MAX_RETRIES

\* C9: a call that always signals rate-limiting is invoked exactly
\* _MAX_RETRIES times, the first attempt and _MAX_RETRIES - 1 retries, each
\* retry after a sleep, and then the wrapper raises the rate-limit error; the
\* sleeps are non-decreasing and at most 60 seconds.
C9_RetryBound ==
    /\ [](/\ \A i \in 1..Len(sleeps) : sleeps[i] <= MaxWait
          /\ \A i \in 1..(Len(sleeps) - 1) : sleeps[i] <= sleeps[i + 1]
          /\ calls <= _MAX_RETRIES
          /\ AlwaysRateLimited => rpc # "returned"
          /\ (rpc = "raised" /\ AlwaysRateLimited) =>
                 /\ calls = _MAX_RETRIES
                 /\ Len(sleeps) = _MAX_RETRIES - 1
                 /\ outcome = "rate_limited")
    /\ (AlwaysRateLimited ~> rpc = "raised")

\* The wrapper gave up on a call that always signals rate-limiting, after a
\* last sleep of the capped length.
C9_Witness ==
    /\ rpc = "raised"
    /\ AlwaysRateLimited
    /\ calls = _MAX_RETRIES
    /\ Len(sleeps) = _MAX_RETRIES - 1
    /\ sleeps[Len(sleeps)] = MaxWait
    /\ sleeps[1] = 1

\* C10: when fn raises an error that is not the rate-limit signal, at any
\* attempt, the wrapper raises that error at once: it does not invoke fn
\* again and does not sleep.
C10_OtherErrorsNotRetried ==
    [][(rpc = "call" /\ FnResult(fn, calls) \notin {"return", "rate_limited"}) =>
          /\ rpc' = "raised"
          /\ outcome' = FnResult(fn, calls)
          /\ calls' = calls + 1
          /\ sleeps' = sleeps
          /\ attempt' = attempt]_vars

\* An APIResponseError with another code ended the wrapper at its fourth
\* attempt.
C10_Witness ==
    /\ rpc = "raised"
    /\ outcome = "unauthorized"
    /\ attempt = 3
    /\ calls = 4
    /\ Len(sleeps) = 3

\* min(2^k, 60) for the attempts k = 0..6 that may be followed by a sleep.
BackoffSchedule == <<1, 2, 4, 8, 16, 32, 60>>

\* C11: the sleep that follows the failed attempt number k is min(2^k, 60)
\* seconds long and every rate-limited attempt but the last allowed one is
\* followed by exactly one sleep before fn is invoked again; when the
\* attempts are exhausted the rate-limit error is raised after
\* _MAX_RETRIES invocations and _MAX_RETRIES - 1 sleeps, so without a
\* sleep after the final failure; and a successful attempt ends the
\* wrapper with fn's result, fn having been invoked once more than it
\* signalled rate-limiting.
C11_BackoffSchedule ==
    /\ Len(sleeps) <= _MAX_RETRIES - 1
    /\ \A k \in 1..Len(sleeps) : sleeps[k] = BackoffSchedule[k]
    /\ rpc = "call" => calls = attempt /\ Len(sleeps) = attempt
    /\ rpc = "sleep" => calls = attempt + 1 /\ Len(sleeps) = attempt + 1
    /\ (rpc = "raised" /\ outcome = "rate_limited") =>
          /\ calls = _MAX_RETRIES
          /\ Len(sleeps) = _MAX_RETRIES - 1
    /\ rpc = "returned" =>
          /\ outcome = "return"
          /\ calls = fn.rate_limited + 1
          /\ Len(sleeps) = fn.rate_limited

\* fn succeeded at its last allowed attempt, after seven sleeps of the
\* whole schedule.
C11_Witness ==
    /\ rpc = "returned"
    /\ fn.rate_limited = _MAX_RETRIES - 1
    /\ calls = _MAX_RETRIES
    /\ sleeps = BackoffSchedule

\* C12: within one run the append call is issued only when every block to
\* delete has had its delete call, no delete call is issued once an append
\* call has been issued, and no step issues both.
C12_DeletesBeforeAppend ==
    /\ []((pc = "append" \/ appends # <<>>) =>
            /\ delete_i = Len(blocks_to_delete)
            /\ Len(deletes) = Len(blocks_to_delete))
    /\ [][(appends # <<>> /\ run' = run) => deletes' = deletes]_vars
    /\ [][run' = run => (deletes' = deletes \/ appends' = appends)]_vars

\* A run that deleted two blocks and then appended.
C12_Witness ==
    /\ pc = "done"
    /\ Len(deletes) = 2
    /\ Len(appends) = 1
    /\ Len(page) = Len(blocks)

\* C13: the delete calls of a run are, in order and once each, the blocks
\* of existing[prefix_len : len(existing) - suffix_len]: at every moment
\* the calls issued are the first blocks of that range, and all of it once
\* the deleting is over; the block the append is anchored to is not among
\* them and is still on the page.
C13_DeletesExactlyRange ==
    AfterDiff =>
        LET range == Ids(SubSeq(existing_blocks, prefix_len + 1,
                                Len(existing_blocks) - suffix_len))
        IN  /\ Len(deletes) <= Len(range)
            /\ deletes = SubSeq(range, 1, Len(deletes))
            /\ pc \in {"prepare", "append", "done"} => deletes = range
            /\ prefix_len > 0 =>
                  LET anchor == existing_blocks[prefix_len].id
                  IN  /\ \A i \in 1..Len(deletes) : deletes[i] # anchor
                      /\ \E i \in 1..Len(page) : page[i].id = anchor

\* A run with a matched first block deleted the two blocks behind it and
\* appended after it.
C13_Witness ==
    /\ pc = "done"
    /\ prefix_len = 1
    /\ Len(deletes) = 2
    /\ Len(appends) = 1
    /\ appends[1].after = existing_blocks[1].id

NothingSynced ==
    /\ existing_blocks = <<>>
    /\ match_lengths = [prefix |-> 0, suffix |-> 0]
    /\ block_objs = <<>>
    /\ deletes = <<>>
    /\ appends = <<>>
    /\ uploads = 0

BeforeChecks == {"get_parent", "resolve_page", "set_icon", "set_cover"}

\* C15: a run whose resolved page has a sub-page never gets past the check
\* of line 433 and, unless a remote call failed before, ends with
\* PageHasSubpagesError; a run whose resolved page has a sub-database (and
\* no sub-page, which is looked for first) never gets past the check of
\* line 436 and ends with PageHasDatabasesError; either error is raised
\* only for such a page and with the page's blocks not read, not diffed,
\* and no delete, file-block upload or append issued.
C15_StructuralErrors ==
    /\ (target # 0 /\ subpages[target].subpages) =>
          /\ pc \in BeforeChecks \cup {"check_subpages", "failed"}
          /\ pc = "failed" =>
                error.type \in {"PageHasSubpagesError", "APIResponseError"}
    /\ (target # 0 /\ subpages[target].subdbs /\ ~subpages[target].subpages) =>
          /\ pc \in BeforeChecks \cup {"check_subpages", "check_subdbs", "failed"}
          /\ pc = "failed" =>
                error.type \in {"PageHasDatabasesError", "APIResponseError"}
    /\ error.type = "PageHasSubpagesError" =>
          /\ subpages[target].subpages
          /\ NothingSynced
    /\ error.type = "PageHasDatabasesError" =>
          /\ subpages[target].subdbs
          /\ NothingSynced

\* The page found has a sub-page, three children and local blocks to sync.
C15_Witness ==
    /\ error.type = "PageHasSubpagesError"
    /\ Len(page) = 3
    /\ blocks # <<>>
    /\ creates = 0

\* C16: a run that got past the resolution targets the only child page of
\* the parent with the title; it issued no create-page call when that page
\* was there before, and one call, which added the page as the last child
\* of the parent, when none was; while no child has the title nothing is
\* targeted; and with more than one child of that title the run ends with
\* the failed assertion (or a failed fetch) with no page created, no icon
\* or cover set, and no block read, deleted or appended.
C16_PageResolution ==
    LET matching == pages_matching_title(subpages)
    IN  /\ creates \in {0, 1}
        /\ target # 0 =>
              /\ matching = {target}
              /\ creates = 1 =>
                    /\ target = Len(subpages)
                    /\ subpages[target] = ChildPage(Title, FALSE, FALSE)
        /\ pc \notin {"get_parent", "resolve_page", "failed"} => target # 0
        /\ matching = {} =>
              /\ target = 0
              /\ creates = 1 => pc = "failed" /\ error = APIError
        /\ Cardinality(matching) > 1 =>
              /\ pc \in {"get_parent", "resolve_page", "failed"}
              /\ pc = "failed" =>
                    error.type \in {"AssertionError", "APIResponseError"}
              /\ target = 0
              /\ creates = 0
              /\ setattrs = <<>>
              /\ cover_uploads = 0
              /\ NothingSynced
        /\ error.type = "AssertionError" => Cardinality(matching) > 1

\* Two child pages of the parent have the title and the run has ended.
C16_Witness ==
    /\ error.type = "AssertionError"
    /\ Cardinality(pages_matching_title(subpages)) = 2
    /\ creates = 0
    /\ setattrs = <<>>

\* The two blocks are alike field by field and child by child, a local
\* path standing for a hosted file of the same name, caption and digest.
RECURSIVE SameTree(_, _)
SameTree(e, l) ==
    /\ e.kind = l.kind
    /\ e.text = l.text
    /\ IF l.file.url.scheme = "file"
       THEN /\ e.file.ftype = "notion"
            /\ e.file.name = l.file.name
            /\ e.file.caption = l.file.caption
            /\ _calculate_file_sha_from_url(e.file.url)
                  = _calculate_file_sha(l.file.url.path)
       ELSE e.file = l.file
    /\ Len(e.children) = Len(l.children)
    /\ \A i \in 1..Len(e.children) : SameTree(e.children[i], l.children[i])

Returned == cmp_result \in {"True", "False"}

\* C17: for two parent blocks the call returns True exactly when they are
\* equal with their children taken away, have as many children, and the
\* children are alike pair by pair down to the last level.
C17_ParentEquivalence ==
    (Returned /\ IsParentBlock(cmp_existing) /\ IsParentBlock(cmp_local)) =>
        (cmp_result = "True" <=>
            /\ [cmp_existing EXCEPT !.children = <<>>]
                  = [cmp_local EXCEPT !.children = <<>>]
            /\ Len(cmp_existing.children) = Len(cmp_local.children)
            /\ \A i \in 1..Len(cmp_local.children) :
                   SameTree(cmp_existing.children[i], cmp_local.children[i]))

\* The only difference is the text of a block at the second level.
C17_Witness ==
    /\ cmp_existing = BulletedItem("item", <<BulletedItem("sub", <<Paragraph("a")>>)>>)
    /\ cmp_local = BulletedItem("item", <<BulletedItem("sub", <<Paragraph("b")>>)>>)
    /\ cmp_result = "False"

\* C18: for a local block whose file is a local path the call returns True
\* only if the existing file is hosted by the service, has the local name
\* and caption and the digest of the local file (and, for blocks of one
\* kind, whenever that is so); an external existing file, another name or
\* another caption give False whatever the bytes.
C18_LocalFileEquivalence ==
    (Returned /\ IsFileBlock(cmp_local) /\ cmp_local.file.url.scheme = "file") =>
        LET ef == cmp_existing.file
            lf == cmp_local.file
            same == /\ ef.ftype = "notion"
                    /\ ef.name = lf.name
                    /\ ef.caption = lf.caption
                    /\ _calculate_file_sha_from_url(ef.url)
                          = _calculate_file_sha(lf.url.path)
        IN  /\ cmp_result = "True" => same
            /\ (same /\ cmp_existing.kind = cmp_local.kind) => cmp_result = "True"
            /\ (ef.ftype = "external" \/ ef.name # lf.name
                   \/ ef.caption # lf.caption) => cmp_result = "False"

\* The existing image is an external file with the bytes, the name and the
\* caption of the local file.
C18_Witness ==
    /\ cmp_local = LocalImage("")
    /\ cmp_existing = ExternalImage(ExtImg, "")
    /\ _calculate_file_sha_from_url(ExtImg) = _calculate_file_sha(LocalImg.path)
    /\ cmp_result = "False"

\* C19: for two blocks that are not parents, the local one not being a
\* local path, the call returns True exactly when the two are equal in
\* every field; so blocks of two kinds give False, and a local external
\* file gives True only with an existing external file of the same URL.
C19_StructuralEquality ==
    (/\ Returned
     /\ ~IsParentBlock(cmp_existing)
     /\ ~IsParentBlock(cmp_local)
     /\ ~(IsFileBlock(cmp_local) /\ cmp_local.file.url.scheme = "file")) =>
        /\ cmp_result = "True" <=> cmp_existing = cmp_local
        /\ cmp_existing.kind # cmp_local.kind => cmp_result = "False"
        /\ (cmp_local.file.ftype = "external" /\ cmp_result = "True") =>
              /\ cmp_existing.file.ftype = "external"
              /\ cmp_existing.file.url = cmp_local.file.url

\* Two external images of one URL that differ in their caption.
C19_Witness ==
    /\ cmp_local = ExternalImage(ExtImg, "")
    /\ cmp_existing = ExternalImage(ExtImg, "cap")
    /\ cmp_result = "False"

\* The paths of the files that exist and that a block, or a block below
\* it, gives as a local path.
RECURSIVE LocalFilesOf(_)
LocalFilesOf(b) ==
    (IF b.file.url.scheme = "file" /\ FileExists(b.file.url.path)
     THEN {b.file.url.path} ELSE {})
        \cup UNION { LocalFilesOf(b.children[i]) : i \in 1..Len(b.children) }

\* The digests of the local files the build uses, whatever the kind of the
\* block and however deep it is.
LocalDigests ==
    { _calculate_file_sha(p) :
        p \in UNION { LocalFilesOf(blocks[i]) : i \in 1..Len(blocks) } }

\* The digests of the local files that the top-level image, video, audio
\* and PDF blocks of the build give.
TopLevelMediaDigests ==
    { _calculate_file_sha(blocks[i].file.url.path) :
        i \in { j \in 1..Len(blocks) :
                  /\ blocks[j].kind \in {"image", "video", "audio", "pdf"}
                  /\ blocks[j].file.url.scheme = "file"
                  /\ FileExists(blocks[j].file.url.path) } }

\* The number of blocks, at any depth, that give a local path.
RECURSIVE LocalPathBlocks(_)
LocalPathBlocks(b) ==
    LET below[n \in 0..Len(b.children)] ==
            IF n = 0 THEN 0 ELSE below[n - 1] + LocalPathBlocks(b.children[n])
    IN  (IF b.file.url.scheme = "file" THEN 1 ELSE 0) + below[Len(b.children)]

LocalPathBlocksIn(bs) ==
    LET upto[n \in 0..Len(bs)] ==
            IF n = 0 THEN 0 ELSE upto[n - 1] + LocalPathBlocks(bs[n])
    IN  upto[Len(bs)]

\* The upload calls of one run of upload_files are for files of pairwise
\* different digests.
OneUploadPerDigest ==
    \A i, j \in 1..Len(file_uploads) :
        (/\ i < j
         /\ file_uploads[i].run = file_uploads[j].run) =>
            _calculate_file_sha(file_uploads[i].path)
                # _calculate_file_sha(file_uploads[j].path)

\* C20 as stated: in a run of either program the same file content is
\* uploaded by one call only, so a run issues no more uploads than its
\* files have digests.
C20_OneUploadPerContent ==
    /\ OneUploadPerDigest
    /\ pc = "done" => uploads <= Cardinality(LocalDigests)

\* C20 (amended): upload_files issues, within a run, one upload call for a
\* digest however many paths have it; it issues none for a digest that is a
\* key of the mapping, none at all while the mapping file has every digest
\* of the top-level media blocks of the build, and a run that ends leaves
\* such a mapping file.  upload_to_notion has no mapping: it issues one
\* upload call for each block of the upload range, at any depth, that is a
\* local path.
C20_MappingDedup ==
    /\ []OneUploadPerDigest
    /\ [][file_uploads' # file_uploads =>
            LET sha == _calculate_file_sha(
                           file_uploads'[Len(file_uploads')].path)
            IN  /\ sha \notin DOMAIN sha_mapping
                /\ sha \notin DOMAIN mapping_file]_vars
    /\ [][(/\ fpc = "loop"
            /\ TopLevelMediaDigests \subseteq DOMAIN mapping_file) =>
            file_uploads' = file_uploads]_vars
    /\ [](fpc = "exit" => DOMAIN mapping_file = TopLevelMediaDigests)
    /\ [](pc = "done" => uploads = LocalPathBlocksIn(blocks_to_upload))

\* Two paths with the same bytes and an empty mapping: the first run
\* uploaded one of them, the second run nothing.
C20_Witness ==
    /\ frun = 2
    /\ fpc = "exit"
    /\ blocks = <<Image(ExternalFile(LocalImg, "img.png", "")),
                  Image(ExternalFile(LocalCopy, "copy.png", ""))>>
    /\ Len(file_uploads) = 1
    /\ file_uploads[1].run = 1
    /\ DOMAIN mapping_file = {"sha-img"}

\* Whether the service still serves the asset at the URL.
AssetResolves(url) == url # HostedExpired

\* C21: a cached asset is reused only when it still resolves and is replaced
\* by a fresh upload otherwise, so every entry of the mapping that a
\* completed run of upload_files saved is an asset that resolves.
C21_CacheHitVerified ==
    fpc = "exit" =>
        \A sha \in DOMAIN mapping_file : AssetResolves(mapping_file[sha])

\* C22: with cover_path given and an existing service-hosted cover that has
\* the digest of the local file, the cover step issues no file upload and no
\* cover update, and the page keeps its existing cover.
C22_CoverUnchanged ==
    [][(/\ pc = "set_cover"
        /\ cover = "path"
        /\ page_cover.ftype = "notion"
        /\ _files_match(page_cover.url, CoverPath)) =>
            /\ cover_uploads' = cover_uploads
            /\ setattrs' = setattrs
            /\ page_cover' = page_cover]_vars

(***************************************************************************)
(* Properties of the upload command.                                       *)
(***************************************************************************)
MaxOf(S) == CHOOSE x \in S : \A y \in S : y <= x

\* Levels of children below a block in the payload the service receives.
RECURSIVE PayloadDepth(_)
PayloadDepth(block) ==
    IF block.nested = <<>>
    THEN 0
    ELSE 1 + MaxOf({PayloadDepth(block.nested[i]) : i \in 1..Len(block.nested)})

\* Levels of children below a block, over the children the engine reads.
RECURSIVE ReadDepth(_)
ReadDepth(block) ==
    LET cs == _get_block_children(block)
    IN  IF cs = <<>>
        THEN 0
        ELSE 1 + MaxOf({ReadDepth(cs[i]) : i \in 1..Len(cs)})

\* The blocks k levels below the blocks bs, in document order.
RECURSIVE LevelBlocks(_, _)
LevelBlocks(bs, k) ==
    IF k = 0
    THEN bs
    ELSE Concat([i \in 1..Len(bs) |->
                    LevelBlocks(_get_block_children(bs[i]), k - 1)])

\* The top-level blocks of all append calls so far.
SentBlocks ==
    Concat([i \in 1..Len(append_calls) |-> append_calls[i].children])

\* The pairs a call of _upload_blocks_with_deep_nesting on bs has to record:
\* one for each block two levels down that has children.
ExpectedTasks(bs) ==
    LET parents == SelectSeq(LevelBlocks(bs, 2),
                             LAMBDA b : _get_block_children(b) # <<>>)
    IN  [i \in 1..Len(parents) |->
            [placeholder |-> _remove_block_children(parents[i]),
             deep_children |-> _get_block_children(parents[i])]]

RECURSIVE JoinContent(_)
JoinContent(rich_text) ==
    IF rich_text = <<>>
    THEN <<>>
    ELSE Head(rich_text).content \o JoinContent(Tail(rich_text))

\* A block of the JSON file as a tree: type, text and children.
RECURSIVE LocalTree(_)
LocalTree(block) ==
    [type |-> block.type,
     text |-> JoinContent(block.rich_text),
     nested |-> [i \in 1..Len(block.nested) |-> LocalTree(block.nested[i])]]

\* The blocks the service holds below a block, as trees.
RECURSIVE RemoteForest(_, _)
RemoteForest(nodes, parent_id) ==
    LET cs == ChildrenOf(nodes, parent_id)
    IN  [i \in 1..Len(cs) |->
            [type |-> cs[i].type,
             text |-> JoinContent(cs[i].rich_text),
             nested |-> RemoteForest(nodes, cs[i].id)]]

\* C24: every recorded deep_children list is uploaded below the block that
\* was created for its own placeholder, also when two placeholders have the
\* same type and text, so a command that ends without error leaves the page
\* with the tree of the JSON file.
C24_OwnPlaceholder ==
    dpc = "done" /\ existing_page_id = PageId =>
        RemoteForest(remote, PageId) =
            [i \in 1..Len(contents) |-> LocalTree(contents[i])]

\* C25 as stated: the append calls of a run are batches of the upload range
\* of at most the service maximum each, the first anchored after the last
\* block of the prefix, and together they are the upload range.
C25_AppendsInBatches ==
    /\ \A i \in 1..Len(appends) :
          Len(appends[i].blocks) <= NOTION_BLOCKS_BATCH_SIZE
    /\ pc = "done" =>
          /\ Concat([i \in 1..Len(appends) |-> appends[i].blocks])
                 = Prepared(SubSeq(blocks, prefix_len + 1,
                                   Len(blocks) - suffix_len))
          /\ appends # <<>> =>
                 appends[1].after =
                     IF prefix_len > 0 THEN existing_blocks[prefix_len].id ELSE 0

\* C25 (amended): upload_to_notion does not split the upload range.  A run
\* issues at most one append call; a run that ends without error has issued
\* none when the upload range is empty and otherwise one, which carries the
\* whole upload range in order, however long, anchored after the last block
\* of the prefix, or without an anchor when the prefix is empty.
C25_SingleAppend ==
    /\ Len(appends) <= 1
    /\ pc = "done" =>
          LET range == SubSeq(blocks, prefix_len + 1, Len(blocks) - suffix_len)
          IN  IF range = <<>>
              THEN appends = <<>>
              ELSE /\ Len(appends) = 1
                   /\ appends[1].blocks = Prepared(range)
                   /\ Len(appends[1].blocks) = Len(blocks) - prefix_len - suffix_len
                   /\ appends[1].after =
                          IF prefix_len > 0
                          THEN existing_blocks[prefix_len].id
                          ELSE 0

\* One append call with more blocks than the service maximum, on a page
\* whose blocks were all deleted first.
C25_Witness ==
    /\ pc = "done"
    /\ Len(existing_blocks) >= 1
    /\ prefix_len = 0
    /\ Len(appends) = 1
    /\ Len(appends[1].blocks) > NOTION_BLOCKS_BATCH_SIZE
    /\ appends[1].after = 0

C26_WitnessAppended ==
    /\ run = 2
    /\ ~prev_ok
    /\ pc = "done"
    /\ Len(existing_blocks) >= 2
    /\ \E i \in 1..Len(existing_blocks) : existing_blocks[i].id > MaxExisting
    /\ deletes = <<>>
    /\ appends = <<>>

\* C27: every remote call goes through the retry wrapper, so a run that a
\* rate-limit response ended had that response from _MAX_RETRIES calls in a
\* row; a single one never ends a run.
C27_RateLimitRetried ==
    (fpc = "failed" /\ ferror.code = "rate_limited") =>
        ferror.responses = _MAX_RETRIES

\* C28: the engine never changes a block it is given: the blocks loaded
\* from the JSON file keep their value through _process_block, and the
\* blocks main passes on keep theirs through _extract_deep_children and the
\* functions it calls.
C28_InputsUnchanged ==
    /\ [][contents' = contents]_vars
    /\ [][dpc # "process" => processed_contents' = processed_contents]_vars

\* C29: a completed run of upload_files saves a mapping whose keys are
\* exactly the digests of the local files the build uses, at any depth and
\* for every kind of file block, and the save keeps the value of every
\* entry the mapping file already had for a used digest.
C29_MappingIsUsedFiles ==
    /\ [](fpc = "exit" => DOMAIN mapping_file = LocalDigests)
    /\ [][mapping_file' # mapping_file =>
            \A sha \in DOMAIN mapping_file \cap LocalDigests :
                /\ sha \in DOMAIN mapping_file'
                /\ mapping_file'[sha] = mapping_file[sha]]_vars

\* The uploaded files that a block, or a block below it, carries.
RECURSIVE UploadedIn(_)
UploadedIn(b) ==
    (IF b.file.ftype = "file_upload" THEN {b.file} ELSE {})
        \cup UNION { UploadedIn(b.children[i]) : i \in 1..Len(b.children) }

\* The paths whose upload the log has seen return from its wait.
WaitedPaths(log) ==
    { log[i].path : i \in { j \in 1..Len(log) :
                               log[j].op = "wait_until_uploaded" } }

\* The upload calls of the run that the counters of the three callers hold.
CountedUploads ==
    uploads + cover_uploads
        + Cardinality({ i \in 1..Len(file_uploads) :
                          file_uploads[i].run = frun })

\* C30: every upload call is followed at once by the return of its wait,
\* unless the call or the wait raised and ended the run, and a file is
\* handed on only right after that return: the blocks of an append carry
\* only files whose wait returned, a cover that becomes a file hosted by
\* the service is the uploaded file and is set right after the wait, and
\* an entry the mapping gains is recorded right after the wait.
C30_WaitBeforeReference ==
    /\ [](\A i \in 1..Len(asset_log) :
            LET e == asset_log[i]
            IN  /\ e.op \in {"block", "cover", "mapping"} =>
                      /\ i > 2
                      /\ asset_log[i - 1] = WaitReturn(e.path)
                      /\ asset_log[i - 2] = UploadCall(e.path)
                /\ e.op = "upload" =>
                      \/ /\ i < Len(asset_log)
                         /\ asset_log[i + 1] = WaitReturn(e.path)
                      \/ /\ i = Len(asset_log)
                         /\ (pc = "failed" \/ fpc = "failed"))
    /\ [](Cardinality({ i \in 1..Len(asset_log) :
                          asset_log[i].op = "upload" }) = CountedUploads)
    /\ [][appends' # appends =>
            \A i \in 1..Len(block_objs) : \A f \in UploadedIn(block_objs[i]) :
                \E path \in WaitedPaths(asset_log) :
                    f = UploadedFile(path, f.caption)]_vars
    /\ [][(page_cover' # page_cover /\ page_cover'.ftype = "notion") =>
            /\ asset_log'[Len(asset_log')] = Reference("cover", CoverPath)
            /\ page_cover' = StoredCover(UploadedFile(CoverPath, ""))]_vars
    /\ [][(fpc = "loop" /\ ~(DOMAIN sha_mapping' \subseteq DOMAIN sha_mapping)) =>
            LET e == asset_log'[Len(asset_log')]
            IN  /\ e.op = "mapping"
                /\ DOMAIN sha_mapping' =
                      DOMAIN sha_mapping \cup {_calculate_file_sha(e.path)}
                /\ sha_mapping'[_calculate_file_sha(e.path)] =
                      HostedUrl(e.path)]_vars

\* A run of upload_to_notion that set the cover to the uploaded file and
\* appended a block built from an uploaded file.
C30_Witness ==
    /\ pc = "done"
    /\ \E i \in 1..Len(asset_log) : asset_log[i].op = "cover"
    /\ \E i \in 1..Len(asset_log) : asset_log[i].op = "block"
    /\ Len(appends) = 1
    /\ \E i \in 1..Len(appends[1].blocks) :
          UploadedIn(appends[1].blocks[i]) # {}

\* A run of upload_files that saved a mapping with an entry it recorded.
C30_WitnessMapping ==
    /\ fpc = "exit"
    /\ \E i \in 1..Len(asset_log) :
          /\ asset_log[i].op = "mapping"
          /\ _calculate_file_sha(asset_log[i].path) \in DOMAIN mapping_file

\* C31: a run of upload_files reads the mapping file once, at its start,
\* and writes it once, whole, as the step that ends the run; a run that an
\* upload error or an undetermined asset URL ended leaves the file as it
\* was when the run started.
C31_MappingFileAtomic ==
    /\ [][fpc = "start" => sha_mapping' = mapping_file]_vars
    /\ [][mapping_file' # mapping_file =>
            /\ fpc = "loop"
            /\ file_urls = {}
            /\ fpc' = "exit"
            /\ mapping_file' = sha_mapping']_vars
    /\ [][(fpc \in {"exit", "failed"} \/ fpc' = "failed") =>
            mapping_file' = mapping_file]_vars

\* A run that recorded one upload in memory and then failed on the next:
\* the file still lacks the recorded entry.
C31_Witness ==
    /\ fpc = "failed"
    /\ ferror.code = "RuntimeError"
    /\ DOMAIN sha_mapping \ DOMAIN mapping_file # {}
    /\ mapping_file # <<>>

\* The phase a position of upload_to_notion belongs to; the checks for
\* sub-pages and databases come between the metadata and the listing.
Phase(p) ==
    CASE p \in {"get_parent", "resolve_page"} -> 1
      [] p \in {"set_icon", "set_cover"} -> 2
      [] p \in {"check_subpages", "check_subdbs"} -> 3
      [] p \in {"list_blocks", "diff", "discussions"} -> 4
      [] p = "delete" -> 5
      [] p \in {"prepare", "append"} -> 6
      [] p = "done" -> 7
      [] OTHER -> 8

\* The ids of the children of the page.
PageIds(children) == { children[i].id : i \in 1..Len(children) }

\* C32: a run goes through resolve page, set metadata, diff children,
\* delete range, upload range and done in that order and never goes back
\* to an earlier phase; nothing follows a failure or the return, and the
\* step that fails undoes nothing: the page that was created, the icon and
\* the cover that were set stay, no child of the page disappears in it and
\* no deleted child comes back.
C32_PhasesInOrder ==
    /\ [][Phase(pc') >= Phase(pc)]_vars
    /\ [][pc \notin {"failed", "done"}]_vars
    /\ [][pc' = "failed" =>
            /\ subpages' = subpages
            /\ page_icon' = page_icon
            /\ page_cover' = page_cover
            /\ PageIds(page) \subseteq PageIds(page')
            /\ \A i \in 1..Len(existing_blocks) :
                  existing_blocks[i].id \notin PageIds(page) =>
                      existing_blocks[i].id \notin PageIds(page')]_vars

\* A run that failed in its append after it had deleted a block of the
\* page it found by title, with the icon set.
C32_Witness ==
    /\ pc = "failed"
    /\ Len(appends) = 1
    /\ Len(deletes) >= 1
    /\ Len(setattrs) = 2
    /\ creates = 0

\* C33: a file block whose URL is not a local path is passed on as it is
\* and no upload call is made for it, so a run none of whose blocks, at any
\* depth, is a local path makes no upload call for its blocks.
C33_ExternalPassThrough ==
    /\ [][block_objs' # block_objs /\ run' = run =>
            LET b == blocks_to_upload[Len(block_objs')]
            IN  (IsFileBlock(b) /\ b.file.url.scheme # "file") =>
                    /\ block_objs'[Len(block_objs')] = b
                    /\ uploads' = uploads
                    /\ asset_log' = asset_log]_vars
    /\ [](LocalPathBlocksIn(blocks) = 0 =>
            /\ uploads = 0
            /\ asset_log = <<>>
            /\ \A i \in 1..Len(appends) :
                  appends[i].blocks = blocks_to_upload)

\* A run that appended an image given by an external URL.
C33_Witness ==
    /\ pc = "done"
    /\ uploads = 0
    /\ Len(appends) = 1
    /\ \E i \in 1..Len(appends[1].blocks) :
          appends[1].blocks[i] = Image(ExternalFile(ExtImg, "img.png", ""))

\* Whether a block that was sent is the local block with every local path,
\* at any depth, replaced by an uploaded file.
RECURSIVE SentFor(_, _)
SentFor(sent, local) ==
    /\ sent.kind = local.kind
    /\ sent.text = local.text
    /\ sent.file.caption = local.file.caption
    /\ IF local.file.url.scheme = "file"
       THEN sent.file.ftype = "file_upload"
       ELSE sent.file = local.file
    /\ Len(sent.children) = Len(local.children)
    /\ \A i \in 1..Len(local.children) :
          SentFor(sent.children[i], local.children[i])

\* C34: when no child page has the title, the run issues one create-page
\* call; if it returns with a non-empty local sequence it has issued no
\* delete and one append, without an anchor, that carries all local blocks
\* in order, and with no icon and no cover requested it has set both, to
\* None.
C34_CreatedPage ==
    /\ [](creates <= 1)
    /\ [][(pc = "resolve_page" /\ pages_matching_title(subpages) = {}) =>
            creates' = 1]_vars
    /\ [](creates = 1 => existing_blocks = <<>>)
    /\ []((pc = "done" /\ creates = 1 /\ blocks # <<>>) =>
            /\ deletes = <<>>
            /\ Len(appends) = 1
            /\ appends[1].after = 0
            /\ Len(appends[1].blocks) = Len(blocks)
            /\ \A i \in 1..Len(blocks) :
                  SentFor(appends[1].blocks[i], blocks[i])
            /\ (icon = "" /\ cover = "") =>
                  /\ setattrs = <<"icon", "cover">>
                  /\ page_icon = ""
                  /\ page_cover = NoFile)

\* A run that created the page and appended a paragraph and an image.
C34_Witness ==
    /\ pc = "done"
    /\ creates = 1
    /\ icon = ""
    /\ cover = ""
    /\ blocks = <<Paragraph("a"), Image(ExternalFile(LocalImg, "img.png", ""))>>
    /\ Len(appends) = 1
    /\ Len(page) = 2

\* ceil(n / b)
CeilDiv(n, b) == (n + b - 1) \div b

\* C35: for a list of n blocks and a batch size b, _upload_blocks_in_batches
\* issues ceil(n / b) append calls, none for n = 0; the i-th call carries
\* the blocks (i-1)b+1 .. min(ib, n) of the list, so each call has between
\* 1 and b blocks and the calls together carry the list; when an append
\* raises, the command ends with the error and no later batch is sent.
C35_Batches ==
    [][dpc = "call" =>
        LET input == _extract_deep_children(call.blocks, 1).processed_blocks
            n == Len(input)
            b == batch_size
            sent == SubSeq(append_calls', Len(append_calls) + 1,
                           Len(append_calls'))
        IN  /\ call.blocks = <<>> <=> n = 0
            /\ Len(sent) <= CeilDiv(n, b)
            /\ \A i \in 1..Len(sent) :
                  /\ sent[i].block_id = call.page_id
                  /\ Len(sent[i].children) \in 1..b
                  /\ sent[i].children =
                        SubSeq(input, (i - 1) * b + 1, Min(i * b, n))
            /\ dpc' # "failed" =>
                  /\ Len(sent) = CeilDiv(n, b)
                  /\ Concat([i \in 1..Len(sent) |-> sent[i].children]) = input
            /\ Len(sent) < CeilDiv(n, b) =>
                  /\ dpc' = "failed"
                  /\ derror' # ""
                  /\ Len(remote') - Len(remote) =
                        ForestSize(SubSeq(input, 1, (Len(sent) - 1) * b))]_vars

\* Three blocks sent with batch size two: a call with two blocks and a
\* call with one.
C35_Witness ==
    /\ batch_size = 2
    /\ dpc = "done"
    /\ \E i \in 1..(Len(append_calls) - 1) :
          /\ append_calls[i].block_id = append_calls[i + 1].block_id
          /\ Len(append_calls[i].children) = 2
          /\ Len(append_calls[i + 1].children) = 1

\* Whether the returned block is the input block but for child lists that
\* were removed whole: the same type, text and unread fields, and either no
\* children or as many as the input, each the same in this sense.
RECURSIVE SameButRemoved(_, _)
SameButRemoved(orig, ret) ==
    LET ocs == _get_block_children(orig)
        rcs == _get_block_children(ret)
    IN  /\ _remove_block_children(orig) = _remove_block_children(ret)
        /\ \/ rcs = <<>>
           \/ /\ Len(rcs) = Len(ocs)
              /\ \A i \in 1..Len(ocs) : SameButRemoved(ocs[i], rcs[i])

\* The child lists the returned block lacks, in document order, each with
\* the returned block that lost it.
RECURSIVE RemovedLists(_, _)
RemovedLists(orig, ret) ==
    LET ocs == _get_block_children(orig)
        rcs == _get_block_children(ret)
    IN  IF rcs = <<>>
        THEN IF ocs = <<>>
             THEN <<>>
             ELSE <<[placeholder |-> ret, deep_children |-> ocs]>>
        ELSE Concat([i \in 1..Len(rcs) |-> RemovedLists(ocs[i], rcs[i])])

\* C36: the blocks _extract_deep_children returns are the input blocks but
\* for child lists removed whole; the recorded pairs are exactly those
\* lists, each once, in document order, with the returned block that lost
\* it as placeholder, so attaching each list to its placeholder gives the
\* input back; a block that lost no list is returned equal to the input
\* and has no pair.
C36_NothingLost ==
    [][(dpc = "call" /\ call.blocks # <<>> /\ dpc' = "loop") =>
        LET input == call.blocks
            before == Len(append_calls)
            returned == Concat([i \in 1..(Len(append_calls') - before) |->
                                   append_calls'[before + i].children])
            tasks == IF stack' = stack
                     THEN <<>>
                     ELSE stack'[Len(stack')].tasks
            removed == Concat([i \in 1..Len(input) |->
                                  RemovedLists(input[i], returned[i])])
        IN  /\ Len(returned) = Len(input)
            /\ \A i \in 1..Len(input) :
                  /\ SameButRemoved(input[i], returned[i])
                  /\ RemovedLists(input[i], returned[i]) = <<>> =>
                        returned[i] = input[i]
            /\ tasks = removed]_vars

\* A call that recorded two pairs whose placeholders are equal blocks and
\* whose lists differ.
C36_Witness ==
    /\ dpc = "loop"
    /\ Len(stack) = 1
    /\ Len(stack[1].tasks) = 2
    /\ stack[1].tasks[1].placeholder = stack[1].tasks[2].placeholder
    /\ stack[1].tasks[1].deep_children # stack[1].tasks[2].deep_children

\* The blocks of the service hold the local trees: every local block, at
\* every depth, has its counterpart, the block at its own position below
\* the counterpart of its parent.
RECURSIVE Holds(_, _)
Holds(remote_trees, local_trees) ==
    /\ Len(remote_trees) >= Len(local_trees)
    /\ \A i \in 1..Len(local_trees) :
          /\ remote_trees[i].type = local_trees[i].type
          /\ remote_trees[i].text = local_trees[i].text
          /\ Holds(remote_trees[i].nested, local_trees[i].nested)

\* C37: when main ends without error, on a page that existed and on a page
\* it created, every block of the JSON file, at every depth, is on the
\* page below the counterpart of its own parent: no deep_children list was
\* skipped.
C37_EveryBlockUploaded ==
    dpc = "done" =>
        Holds(RemoteForest(remote, PageId),
              [i \in 1..Len(contents) |-> LocalTree(contents[i])])

\* The paths of the local-path file blocks of a block, the block itself
\* first and then its children, in document order.
RECURSIVE LocalPathsOf(_)
LocalPathsOf(b) ==
    (IF b.file.url.scheme = "file" THEN <<b.file.url.path>> ELSE <<>>)
        \o Concat([i \in 1..Len(b.children) |-> LocalPathsOf(b.children[i])])

LocalPathsIn(bs) == Concat([i \in 1..Len(bs) |-> LocalPathsOf(bs[i])])

\* The paths of the files that the log has seen put into a block, in order.
BlockFiles(log) ==
    LET refs == SelectSeq(log, LAMBDA e : e.op = "block")
    IN  [i \in 1..Len(refs) |-> refs[i].path]

IsPrefixOf(s, t) == Len(s) <= Len(t) /\ SubSeq(t, 1, Len(s)) = s

\* Same kinds, same child counts, same order.
RECURSIVE SameShape(_, _)
SameShape(b, c) ==
    /\ b.kind = c.kind
    /\ Len(b.children) = Len(c.children)
    /\ \A i \in 1..Len(b.children) : SameShape(b.children[i], c.children[i])

RECURSIVE NoLocalReference(_)
NoLocalReference(b) ==
    /\ b.file.url.scheme # "file"
    /\ \A i \in 1..Len(b.children) : NoLocalReference(b.children[i])

\* C38: the files upload_to_notion puts into blocks are, in order, those of
\* the local-path file blocks of the upload range, at any depth, one upload
\* call each: when the blocks are appended and when the run is done every
\* one of them has been uploaded once and no file of the matched prefix or
\* suffix has.  The appended blocks have no local path and the shape of the
\* upload range.
C38_UploadsInRange ==
    /\ [](/\ IsPrefixOf(BlockFiles(asset_log), LocalPathsIn(blocks_to_upload))
          /\ uploads >= Len(BlockFiles(asset_log)))
    /\ []((pc = "done" \/ (pc = "append" /\ blocks_to_upload # <<>>)) =>
            /\ BlockFiles(asset_log) = LocalPathsIn(blocks_to_upload)
            /\ uploads = Len(LocalPathsIn(blocks_to_upload)))
    /\ [][appends' # appends =>
            LET sent == appends'[Len(appends')].blocks
            IN  /\ BlockFiles(asset_log) = LocalPathsIn(blocks_to_upload)
                /\ Len(sent) = Len(blocks_to_upload)
                /\ \A i \in 1..Len(sent) :
                      /\ SameShape(sent[i], blocks_to_upload[i])
                      /\ NoLocalReference(sent[i])]_vars

\* A run is done that matched a prefix of one local image and a suffix of
\* one block, and uploaded the two files of the range between them, one of
\* them the child of a list item.
C38_Witness ==
    /\ pc = "done"
    /\ prefix_len = 1
    /\ suffix_len = 1
    /\ LocalPathsIn(SubSeq(blocks, 1, prefix_len)) # <<>>
    /\ Len(blocks_to_upload) = 2
    /\ uploads = 2
    /\ BlockFiles(asset_log) = <<LocalImg.path, LocalNew.path>>
    /\ Len(appends) = 1

\* C39: the wrapper invokes fn at most _MAX_RETRIES times and ends, by
\* returning what the last invocation of fn returned or by raising what it
\* raised; it never raises the AssertionError that follows the loop.
C39_EndsWithFnOutcome ==
    /\ [](/\ calls <= _MAX_RETRIES
          /\ outcome # "AssertionError"
          /\ rpc = "returned" =>
                /\ FnResult(fn, calls - 1) = "return"
                /\ outcome = "return"
          /\ rpc = "raised" =>
                /\ outcome = FnResult(fn, calls - 1)
                /\ outcome # "return")
    /\ <>(rpc \in {"returned", "raised"})

\* fn signalled rate-limiting seven times and raised an error that is no
\* APIResponseError at the last attempt the loop has.
C39_Witness ==
    /\ rpc = "raised"
    /\ fn = [rate_limited |-> _MAX_RETRIES - 1, final |-> "ValueError"]
    /\ calls = _MAX_RETRIES
    /\ attempt = _MAX_RETRIES - 1
    /\ outcome = "ValueError"

\* A rich_text list and its split: an object that is no text, or whose
\* content is within the limit, is kept as it is, in its place; a longer
\* text of length L has become ceil(L / limit) objects in a row, each with
\* between one character and the limit, that differ from it in the content
\* only and whose contents joined are its content.
RECURSIVE IsSplitOf(_, _)
IsSplitOf(new_rich_text, rich_text) ==
    IF rich_text = <<>>
    THEN new_rich_text = <<>>
    ELSE LET obj == Head(rich_text)
             L == Len(obj.content)
             kept == obj.type # "text" \/ L <= NOTION_RICH_TEXT_LIMIT
             n == IF kept THEN 1 ELSE CeilDiv(L, NOTION_RICH_TEXT_LIMIT)
         IN  /\ Len(new_rich_text) >= n
             /\ IF kept
                THEN new_rich_text[1] = obj
                ELSE /\ \A i \in 1..n :
                          /\ new_rich_text[i].content # <<>>
                          /\ Len(new_rich_text[i].content)
                                 <= NOTION_RICH_TEXT_LIMIT
                          /\ [new_rich_text[i] EXCEPT !.content = obj.content]
                                 = obj
                     /\ JoinContent(SubSeq(new_rich_text, 1, n)) = obj.content
             /\ IsSplitOf(SubSeq(new_rich_text, n + 1, Len(new_rich_text)),
                          Tail(rich_text))

\* The rich_text lists of a processed block are the splits of those of the
\* block, on every level.
RECURSIVE IsSplitBlock(_, _)
IsSplitBlock(processed, block) ==
    /\ IsSplitOf(processed.rich_text, block.rich_text)
    /\ Len(processed.nested) = Len(block.nested)
    /\ \A i \in 1..Len(block.nested) :
          IsSplitBlock(processed.nested[i], block.nested[i])

\* C40: _split_rich_text keeps the objects that are no text or are within
\* the limit, unchanged and in place, and replaces a text of length L over
\* the limit by ceil(L / limit) objects in a row, none empty and none over
\* the limit, with the contents in order and the other fields of the text.
C40_SplitRichText ==
    [][dpc = "process" =>
          /\ Len(processed_contents') = Len(contents)
          /\ \A i \in 1..Len(contents) :
                IsSplitBlock(processed_contents'[i], contents[i])]_vars

\* A text of five characters was split in three, of two, two and one
\* characters, before an equation and a short text that were kept.
C40_Witness ==
    /\ dpc # "process"
    /\ processed_contents # <<>>
    /\ LET new_rich_text == processed_contents[1].rich_text
       IN  /\ Len(new_rich_text) = 5
           /\ new_rich_text[1].content = <<"a", "a">>
           /\ new_rich_text[3].content = <<"a">>
           /\ new_rich_text[3].plain_text = <<"a", "a", "a", "a", "a">>
           /\ new_rich_text[4] = Equation(<<"e", "e", "e">>)
           /\ new_rich_text[5] = Text(B)

====
